---- MODULE Spec2Model ----
(***************************************************************************)
(* A model of the ITM/DWT packet decoder of itm-decode (src/src/lib.rs):   *)
(* the bit buffer, the header classifier, the packet assembler and the     *)
(* resynchronisation loop, driven by push() and next().                    *)
(***************************************************************************)
EXTENDS Integers, Sequences, FiniteSets, TLC

VARIABLES
    options,    \* Decoder::options : DecoderOptions
    buffer,     \* Decoder::buffer, a BitVec; pop() removes the LAST element
    sync,       \* Decoder::sync : Option<usize>
    ts_ctx,     \* Decoder::ts_ctx : TimestampedContext
    panicked,   \* a panic (unreachable!()) unwound out of the decoder
    result,     \* what the last call of next() returned
    last,       \* the last operation and the decoder as it was before it
    stream,     \* every byte pushed so far, in push order
    outputs,    \* every packet / malformed packet next() returned so far
    disciplined, \* every push so far was made on a freshly drained decoder
    pull,       \* the loop iterations of the last call of pull_with_timestamp()
    batches,    \* every batch pull_with_timestamp() returned so far
    epoch,      \* how many values next() had returned when base was last
                \* installed (start), and what start was at each batch (of)
    extract,    \* the arguments and the result of a call of extract_timestamp()
    cli         \* the command line tool: its input and where its loop stands

vars ==
    <<options, buffer, sync, ts_ctx, panicked, result, last, stream, outputs,
      disciplined, pull, batches, epoch, extract, cli>>

-----------------------------------------------------------------------------
(* Bounds of the explored inputs *)

\* longest synchronisation stream
MaxSyncStream == 7
\* most bytes that follow the leading zero bytes of a synchronisation stream
MaxSyncTail == 2
\* most bytes that follow the first (arbitrary) byte of a header-sweep stream
MaxSweepTail == 1
\* most bytes that follow the first byte of a packet stream
MaxTail == 3
\* most bytes handed to one push()
MaxChunk == 2
\* longest payload of a timestamp stream
MaxPayload == 6

Byte == 0..255
SyncAlphabet == {0, 128, 1}
TailAlphabet == {0, 171, 16}
\* first bytes of the packet streams: one header per kind of stub body
\* 0x05 0x06 event counter, 0x0E exception trace, 0x15 0x16 0x17 PC sample,
\* 0x47 0x4D 0x8D data trace, 0x0A 0x0B instrumentation, 0xC0 LTS1,
\* 0x94 GTS1, 0xB4 GTS2
HeaderAlphabet == {5, 6, 14, 21, 22, 23, 71, 77, 141, 10, 11, 192, 148, 180}
\* headers of the timestamp streams (LTS1, GTS1, GTS2), the payload bytes that
\* continue a payload (bit 7 set) and those that end it (bit 7 clear)
TimestampHeaders == {192, 148, 180}
ContinueAlphabet == {128, 255}
FinalAlphabet == {0, 127}
\* streams pushed byte for byte as they are written here
ScenarioStreams == {<<23, 68, 51, 34, 17>>, <<148, 128, 73>>, <<148, 39>>}

-----------------------------------------------------------------------------
(* Option<T> *)

None == <<>>
Some(x) == <<x>>

(* Result<Option<TracePacket>, MalformedPacket>, plus the panic outcome *)
OkNone == [kind |-> "None"]
OkSome(p) == [kind |-> "Packet", packet |-> p]
Err(m) == [kind |-> "Err", malformed |-> m]
Panic == [kind |-> "Panic"]

(* HeaderVariant *)
HvPacket(p) == [kind |-> "Packet", packet |-> p]
HvStub(s) == [kind |-> "Stub", stub |-> s]

-----------------------------------------------------------------------------
(* Bit arithmetic on u8 *)

Pow2(n) == 2 ^ n
BitOf(b, i) == (b \div Pow2(i)) % 2
\* (b >> lo) & (2^width - 1)
Field(b, lo, width) == (b \div Pow2(lo)) % Pow2(width)

RECURSIVE Reverse(_)
Reverse(s) == IF s = <<>> THEN <<>> ELSE Append(Reverse(Tail(s)), Head(s))

\* BitVec::<LocalBits, _>::from_vec(data): bit j of byte k sits at index 8k+j
\* (LocalBits is Lsb0 on a little-endian host)
RECURSIVE from_vec(_)
from_vec(data) ==
    IF data = <<>> THEN <<>>
    ELSE [j \in 1..8 |-> BitOf(Head(data), j - 1)] \o from_vec(Tail(data))

-----------------------------------------------------------------------------
(* Bit buffer *)

\* push without the reversal of the new bits
push_unreversed(buf, data) == from_vec(data) \o buf

\* Decoder::push: the reversed bits of data are put in FRONT of the old buffer
push(buf, data) == Reverse(from_vec(data)) \o buf

\* BitVec::pop: the last element leaves
pop_rest(buf) == SubSeq(buf, 1, Len(buf) - 1)
pop_bit(buf) == buf[Len(buf)]

\* Decoder::pull_byte: the i-th bit popped becomes bit i of the byte
pull_byte(buf) ==
    LET n == Len(buf) IN
    [byte |-> buf[n] + 2 * buf[n-1] + 4 * buf[n-2] + 8 * buf[n-3]
              + 16 * buf[n-4] + 32 * buf[n-5] + 64 * buf[n-6] + 128 * buf[n-7],
     buffer |-> SubSeq(buf, 1, n - 8)]

RECURSIVE pull_n(_, _, _)
pull_n(buf, cnt, acc) ==
    IF cnt = 0 THEN [payload |-> acc, buffer |-> buf]
    ELSE LET pb == pull_byte(buf) IN pull_n(pb.buffer, cnt - 1, Append(acc, pb.byte))

\* Decoder::pull_bytes: Option<Vec<u8>>, nothing removed on None
pull_bytes(buf, cnt) ==
    IF Len(buf) < cnt * 8 THEN [payload |-> None, buffer |-> buf]
    ELSE LET r == pull_n(buf, cnt, <<>>) IN [payload |-> Some(r.payload), buffer |-> r.buffer]

\* payload_span over buffer.chunks(8): the groups counted from the FRONT of
\* the buffer
RECURSIVE payload_span_chunks(_, _)
payload_span_chunks(buf, cnt) ==
    LET lo == 8 * (cnt - 1) + 1
    IN  IF lo > Len(buf) THEN 0
        ELSE IF Len(buf) - lo + 1 < 8 THEN 0
        ELSE IF buf[lo] = 0 THEN cnt
        ELSE payload_span_chunks(buf, cnt + 1)

\* The loop of Decoder::pull_payload over buffer.rchunks(8): the k-th chunk is
\* the k-th group of 8 bits counted from the END of the buffer, a shorter
\* group when fewer than 8 bits are left.  Returns 0 for "return None",
\* otherwise cnt, the number of bytes up to the first chunk whose element 0
\* (bit 7 of the byte) is clear.
RECURSIVE payload_span(_, _)
payload_span(buf, cnt) ==
    LET hi == Len(buf) - 8 * (cnt - 1)
    IN  IF hi <= 0 THEN 0
        ELSE IF hi < 8 THEN 0
        ELSE IF buf[hi - 7] = 0 THEN cnt
        ELSE payload_span(buf, cnt + 1)

\* Decoder::pull_payload
pull_payload(buf) ==
    LET cnt == payload_span(buf, 1)
    IN  IF cnt = 0 THEN [payload |-> None, buffer |-> buf]
        ELSE pull_bytes(buf, cnt)

-----------------------------------------------------------------------------
(* Header classifier *)

\* translate_ss with the size field taken as the payload length
translate_ss_raw(ss) == IF ss \in {1, 2, 3} THEN Some(ss) ELSE None

\* decode_header::translate_ss (Table D4-4): None for the reserved value
translate_ss(ss) ==
    CASE ss = 1 -> Some(2 - 1)
      [] ss = 2 -> Some(3 - 1)
      [] ss = 3 -> Some(5 - 1)
      [] OTHER  -> None

\* the data_relation match of the "11rr_0000" arm
data_relation_of(tc) ==
    CASE tc = 0 -> "Sync"
      [] tc = 1 -> "UnknownDelay"
      [] tc = 2 -> "AssocEventDelay"
      [] tc = 3 -> "UnknownAssocEventDelay"

\* the discriminator check of the "aaaa_a1ss" arm
disc_id_valid(disc_id) ==
    (0 <= disc_id /\ disc_id <= 2) \/ (8 <= disc_id /\ disc_id <= 23)

\* the "aaaa_a0ss" arm
instrumentation_header(header) ==
    LET a == Field(header, 3, 5)
        s == Field(header, 0, 2)
    IN  IF translate_ss(s) # None
        THEN HvStub([type |-> "Instrumentation", port |-> a,
                     expected_size |-> translate_ss(s)[1]])
        ELSE Err([type |-> "InvalidSourcePayload", header |-> header, size |-> s])

\* hardware_header with the size field examined before the discriminator
hardware_header_size_first(header) ==
    LET disc_id == Field(header, 3, 5)
        s == Field(header, 0, 2)
    IN  IF translate_ss(s) = None
        THEN Err([type |-> "InvalidSourcePayload", header |-> header, size |-> s])
        ELSE IF ~disc_id_valid(disc_id)
        THEN Err([type |-> "InvalidHardwareDisc", disc_id |-> disc_id, size |-> s])
        ELSE HvStub([type |-> "HardwareSource", disc_id |-> disc_id,
                     expected_size |-> translate_ss(s)[1]])

\* the "aaaa_a1ss" arm
hardware_header(header) ==
    LET disc_id == Field(header, 3, 5)
        s == Field(header, 0, 2)
    IN  IF ~disc_id_valid(disc_id)
        THEN Err([type |-> "InvalidHardwareDisc", disc_id |-> disc_id, size |-> s])
        ELSE IF translate_ss(s) # None
        THEN HvStub([type |-> "HardwareSource", disc_id |-> disc_id,
                     expected_size |-> translate_ss(s)[1]])
        ELSE Err([type |-> "InvalidSourcePayload", header |-> header, size |-> s])

\* the bit patterns of the bitmatch arms of decode_header
is_sync(h) == h = 0                                        \* "0000_0000"
is_overflow(h) == h = 112                                  \* "0111_0000"
is_lts1(h) == Field(h, 6, 2) = 3 /\ Field(h, 0, 4) = 0     \* "11rr_0000"
is_lts2(h) == BitOf(h, 7) = 0 /\ Field(h, 0, 4) = 0        \* "0ttt_0000"
is_gts1(h) == h = 148                                      \* "1001_0100"
is_gts2(h) == h = 180                                      \* "1011_0100"
is_extension(h) == BitOf(h, 7) = 0 /\ Field(h, 0, 4) = 8   \* "0ppp_1000"
is_instrumentation(h) == BitOf(h, 2) = 0                   \* "aaaa_a0ss"
\* is_hardware with the pattern narrowed to a non-reserved size field
is_hardware_sized(h) == BitOf(h, 2) = 1 /\ Field(h, 0, 2) # 0
is_hardware(h) == BitOf(h, 2) = 1                          \* "aaaa_a1ss"

\* decode_header with the "0ttt_0000" arm moved in front of the others
decode_header_lts2_first(header) ==
    IF is_lts2(header)
        THEN HvPacket([type |-> "LocalTimestamp2", ts |-> Field(header, 4, 3)])
    ELSE IF is_sync(header) THEN HvStub([type |-> "Sync", count |-> 8])
    ELSE IF is_overflow(header) THEN HvPacket([type |-> "Overflow"])
    ELSE IF is_lts1(header)
        THEN HvStub([type |-> "LocalTimestamp",
                     data_relation |-> data_relation_of(Field(header, 4, 2))])
    ELSE IF is_gts1(header) THEN HvStub([type |-> "GlobalTimestamp1"])
    ELSE IF is_gts2(header) THEN HvStub([type |-> "GlobalTimestamp2"])
    ELSE IF is_extension(header)
        THEN HvPacket([type |-> "Extension", page |-> Field(header, 4, 3)])
    ELSE IF is_instrumentation(header) THEN instrumentation_header(header)
    ELSE IF is_hardware(header) THEN hardware_header(header)
    ELSE Err([type |-> "InvalidHeader", header |-> header])

\* decode_header: the arms of the bitmatch in source order, first match wins
decode_header(header) ==
    IF is_sync(header) THEN HvStub([type |-> "Sync", count |-> 8])
    ELSE IF is_overflow(header) THEN HvPacket([type |-> "Overflow"])
    ELSE IF is_lts1(header)
        THEN HvStub([type |-> "LocalTimestamp",
                     data_relation |-> data_relation_of(Field(header, 4, 2))])
    ELSE IF is_lts2(header)
        THEN HvPacket([type |-> "LocalTimestamp2", ts |-> Field(header, 4, 3)])
    ELSE IF is_gts1(header) THEN HvStub([type |-> "GlobalTimestamp1"])
    ELSE IF is_gts2(header) THEN HvStub([type |-> "GlobalTimestamp2"])
    ELSE IF is_extension(header)
        THEN HvPacket([type |-> "Extension", page |-> Field(header, 4, 3)])
    ELSE IF is_instrumentation(header) THEN instrumentation_header(header)
    ELSE IF is_hardware(header) THEN hardware_header(header)
    ELSE Err([type |-> "InvalidHeader", header |-> header])       \* "hhhh_hhhh"

-----------------------------------------------------------------------------
(* Payload decoding *)

\* ts_mask that masks out the continuation bit alone
ts_mask_continuation_only(max_len) == 127

\* the mask of extract_timestamp: 0xFFu8.wrapping_shl(shift) >> shift
ts_mask(max_len) ==
    LET shift == 7 - (max_len % 7)
    IN  ((255 * Pow2(shift % 8)) % 256) \div Pow2(shift)

\* b & mask for a mask of the form 2^k - 1
AndMask(b, mask) == b % (mask + 1)

\* A u64 (and a usize of the 64-bit host) is kept as its 64 bits, bit i at
\* index i + 1.  u64_from is the widening cast "as u64" / "as usize" of a
\* value below 2^31.
U64_BITS == 64
u64_from(n) == [i \in 1..U64_BITS |-> IF i <= 31 THEN BitOf(n, i - 1) ELSE 0]
\* a << n and a | b on u64; the shift amounts of the explored payloads stay
\* below 64
u64_shl(a, n) == [i \in 1..U64_BITS |-> IF i > n THEN a[i - n] ELSE 0]
u64_or(a, b) == [i \in 1..U64_BITS |-> IF a[i] = 1 \/ b[i] = 1 THEN 1 ELSE 0]
\* a + b on usize, the carry out of bit 63 dropped
u64_add(a, b) ==
    LET carry[i \in 0..U64_BITS] ==
            IF i = 0 THEN 0 ELSE (a[i] + b[i] + carry[i - 1]) \div 2
    IN  [i \in 1..U64_BITS |-> (a[i] + b[i] + carry[i - 1]) % 2]

\* v < 2^k for a u64 v
Below(v, k) == \A i \in (k + 1)..U64_BITS : v[i] = 0

\* rtail_bits with the continuation bit left in place
RECURSIVE rtail_bits_keeps_continuation(_, _)
rtail_bits_keeps_continuation(payload, i) ==
    IF i >= Len(payload) - 1 THEN u64_from(0)
    ELSE u64_or(u64_shl(u64_from(payload[i + 1]), 7 * i),
                rtail_bits_keeps_continuation(payload, i + 1))

\* the loop of extract_timestamp over rtail: ts |= ((b & 0x7F) as u64) << (7 * i)
RECURSIVE rtail_bits(_, _)
rtail_bits(payload, i) ==
    IF i >= Len(payload) - 1 THEN u64_from(0)
    ELSE u64_or(u64_shl(u64_from(payload[i + 1] % 128), 7 * i),
                rtail_bits(payload, i + 1))

\* extract_timestamp
extract_timestamp(payload, max_len) ==
    LET n == Len(payload)
        head == payload[n]
    IN  u64_or(rtail_bits(payload, 0),
               u64_shl(u64_from(AndMask(head, ts_mask(max_len))), 7 * (n - 1)))

\* u32_from_le_bytes with the bytes taken most significant first
u32_from_be_bytes(p) == [lo |-> p[4] + 256 * p[3], hi |-> p[2] + 256 * p[1]]

\* u32::from_le_bytes; the value is hi * 65536 + lo, kept as two u16 halves
u32_from_le_bytes(p) == [lo |-> p[1] + 256 * p[2], hi |-> p[3] + 256 * p[4]]

\* cortex_m::VectActive::from as called by handle_hardware_source
\* (ARMv7-M exception numbers, Table B1-4)
VectActive_from(nr) ==
    CASE nr = 0 -> Some([type |-> "ThreadMode"])
      [] nr \in {2, 3, 4, 5, 6, 7, 11, 12, 14, 15} ->
            Some([type |-> "Exception", exception |-> nr])
      [] nr >= 16 -> Some([type |-> "Interrupt", irqn |-> nr - 16])
      [] OTHER -> None

\* the exception trace arm (disc_id 1) of handle_hardware_source
exception_trace(disc_id, payload) ==
    IF Len(payload) # 2
    THEN Err([type |-> "InvalidHardwarePacket", disc_id |-> disc_id, payload |-> payload])
    ELSE LET function == Field(payload[2], 4, 2)
             exception_number == (payload[2] % 2) * 256 + payload[1]
         IN  IF exception_number > 255            \* u16 -> u8 try_into fails
             THEN Err([type |-> "InvalidExceptionTrace",
                       exception |-> exception_number, function |-> function])
             ELSE IF VectActive_from(exception_number) = None
             THEN Err([type |-> "InvalidExceptionTrace",
                       exception |-> exception_number, function |-> function])
             ELSE IF function \notin {1, 2, 3}
             THEN Err([type |-> "InvalidExceptionTrace",
                       exception |-> exception_number, function |-> function])
             ELSE OkSome([type |-> "ExceptionTrace",
                          exception |-> VectActive_from(exception_number)[1],
                          action |-> CASE function = 1 -> "Entered"
                                       [] function = 2 -> "Exited"
                                       [] function = 3 -> "Returned"])

\* the data trace arm (disc_id 8..=23) of handle_hardware_source: "???t_tccd"
data_trace(disc_id, payload) ==
    LET t == Field(disc_id, 3, 2)
        comparator == Field(disc_id, 1, 2)
        d == BitOf(disc_id, 0)
    IN  IF t = 1 /\ d = 0 /\ Len(payload) = 4
        THEN OkSome([type |-> "DataTracePC", comparator |-> comparator,
                     pc |-> u32_from_le_bytes(payload)])
        ELSE IF t = 1 /\ d = 1 /\ Len(payload) = 2
        THEN OkSome([type |-> "DataTraceAddress", comparator |-> comparator,
                     data |-> payload])
        ELSE IF t = 2
        THEN OkSome([type |-> "DataTraceValue", comparator |-> comparator,
                     access_type |-> IF d = 0 THEN "Read" ELSE "Write",
                     value |-> payload])
        ELSE Err([type |-> "InvalidHardwarePacket", disc_id |-> disc_id,
                  payload |-> payload])

\* handle_hardware_source, its Ok(p) written as OkSome(p) (the caller's map(Some))
handle_hardware_source(disc_id, payload) ==
    IF disc_id = 0
    THEN IF Len(payload) # 1
         THEN Err([type |-> "InvalidHardwarePacket", disc_id |-> disc_id,
                   payload |-> payload])
         ELSE LET b == payload[1]
              IN  OkSome([type |-> "EventCounterWrap",
                          cyc |-> BitOf(b, 5) # 0, fold |-> BitOf(b, 4) # 0,
                          lsu |-> BitOf(b, 3) # 0, sleep |-> BitOf(b, 2) # 0,
                          exc |-> BitOf(b, 1) # 0, cpi |-> BitOf(b, 0) # 0])
    ELSE IF disc_id = 1 THEN exception_trace(disc_id, payload)
    ELSE IF disc_id = 2
    THEN IF Len(payload) = 1 /\ payload[1] = 0
         THEN OkSome([type |-> "PCSample", pc |-> None])
         ELSE IF Len(payload) = 4
         THEN OkSome([type |-> "PCSample", pc |-> Some(u32_from_le_bytes(payload))])
         ELSE Err([type |-> "InvalidPCSampleSize", payload |-> payload])
    ELSE IF 8 <= disc_id /\ disc_id <= 23 THEN data_trace(disc_id, payload)
    ELSE Panic                                    \* unreachable!()

-----------------------------------------------------------------------------
(* Packet assembler.  A decoder value d is [buffer, sync, ts_ctx]; every    *)
(* operation returns the decoder after the call and what the call returned. *)

SYNC_MIN_ZEROS == 47

Returns(d, r) == [dec |-> d, res |-> r]

\* Timestamp::default
Timestamp_default ==
    [base |-> None, delta |-> None, data_relation |-> None, diverged |-> FALSE]

\* TimestampedContext::default
TimestampedContext_default ==
    [packets |-> <<>>, malformed_packets |-> <<>>, gts1 |-> None, gts2 |-> None,
     ts |-> Timestamp_default, packets_consumed |-> 0]

\* DecoderOptions::default
DecoderOptions_default == [only_gts |-> FALSE, keep_reading |-> TRUE]

\* Decoder::new
Decoder_new(opts) ==
    [options |-> opts, buffer |-> <<>>, sync |-> None,
     ts_ctx |-> TimestampedContext_default]

\* the while-let loop of Decoder::handle_sync; count is the loop's LOCAL copy
\* of self.sync, which is written only on the two returning branches.  When
\* pop() yields None the loop ends and control reaches unreachable!().
RECURSIVE sync_loop(_, _)
sync_loop(d, count) ==
    IF d.buffer = <<>> THEN Returns(d, Panic)
    ELSE LET bit == pop_bit(d.buffer)
             d1 == [d EXCEPT !.buffer = pop_rest(d.buffer)]
         IN  IF bit = 0 /\ count < SYNC_MIN_ZEROS THEN sync_loop(d1, count + 1)
             ELSE IF bit = 1 /\ count >= SYNC_MIN_ZEROS
             THEN Returns([d1 EXCEPT !.sync = None], OkSome([type |-> "Sync"]))
             ELSE Returns([d1 EXCEPT !.sync = None],
                          Err([type |-> "InvalidSync", count |-> count]))

\* Decoder::handle_sync
handle_sync(d) ==
    IF d.sync # None THEN sync_loop(d, d.sync[1])
    ELSE Returns(d, Panic)

\* stub_packet with every GlobalTimestamp2 payload of 4 or more bytes accepted
stub_packet_gts2_long(stub, payload) ==
    CASE stub.type = "HardwareSource" -> handle_hardware_source(stub.disc_id, payload)
      [] stub.type = "LocalTimestamp" ->
            OkSome([type |-> "LocalTimestamp1", data_relation |-> stub.data_relation,
                    ts |-> extract_timestamp(payload, 27)])
      [] stub.type = "GlobalTimestamp1" ->
            OkSome([type |-> "GlobalTimestamp1",
                    ts |-> extract_timestamp(payload, 25),
                    clkch |-> BitOf(payload[Len(payload)], 5) = 1,
                    wrap |-> BitOf(payload[Len(payload)], 6) = 1])
      [] stub.type = "GlobalTimestamp2" ->
            IF Len(payload) = 4
            THEN OkSome([type |-> "GlobalTimestamp2",
                         ts |-> extract_timestamp(payload, 47 - 26)])
            ELSE IF Len(payload) > 4
            THEN OkSome([type |-> "GlobalTimestamp2",
                         ts |-> extract_timestamp(payload, 63 - 26)])
            ELSE Err([type |-> "InvalidGTS2Size", payload |-> payload])
      [] stub.type = "Instrumentation" ->
            OkSome([type |-> "Instrumentation", port |-> stub.port,
                    payload |-> payload])

\* the value of a payload-carrying stub once its payload is pulled
stub_packet(stub, payload) ==
    CASE stub.type = "HardwareSource" -> handle_hardware_source(stub.disc_id, payload)
      [] stub.type = "LocalTimestamp" ->
            OkSome([type |-> "LocalTimestamp1", data_relation |-> stub.data_relation,
                    ts |-> extract_timestamp(payload, 27)])
      [] stub.type = "GlobalTimestamp1" ->
            OkSome([type |-> "GlobalTimestamp1",
                    ts |-> extract_timestamp(payload, 25),
                    clkch |-> BitOf(payload[Len(payload)], 5) = 1,
                    wrap |-> BitOf(payload[Len(payload)], 6) = 1])
      [] stub.type = "GlobalTimestamp2" ->
            IF Len(payload) = 4
            THEN OkSome([type |-> "GlobalTimestamp2",
                         ts |-> extract_timestamp(payload, 47 - 26)])
            ELSE IF Len(payload) = 6
            THEN OkSome([type |-> "GlobalTimestamp2",
                         ts |-> extract_timestamp(payload, 63 - 26)])
            ELSE Err([type |-> "InvalidGTS2Size", payload |-> payload])
      [] stub.type = "Instrumentation" ->
            OkSome([type |-> "Instrumentation", port |-> stub.port,
                    payload |-> payload])

\* how process_stub pulls the body of a stub
stub_pull(stub, buf) ==
    IF stub.type \in {"HardwareSource", "Instrumentation"}
    THEN pull_bytes(buf, stub.expected_size)
    ELSE pull_payload(buf)

\* process_stub with a malformed body left in the buffer
process_stub_keeps_body(d, stub) ==
    IF stub.type = "Sync" THEN handle_sync([d EXCEPT !.sync = Some(stub.count)])
    ELSE LET pulled == stub_pull(stub, d.buffer)
         IN  IF pulled.payload = None THEN Returns(d, OkNone)
             ELSE IF stub_packet(stub, pulled.payload[1]).kind = "Err"
             THEN Returns(d, stub_packet(stub, pulled.payload[1]))
             ELSE Returns([d EXCEPT !.buffer = pulled.buffer],
                          stub_packet(stub, pulled.payload[1]))

\* process_stub with the buffered part of an incomplete body pulled and dropped
process_stub_drops_partial(d, stub) ==
    IF stub.type = "Sync" THEN handle_sync([d EXCEPT !.sync = Some(stub.count)])
    ELSE LET pulled == stub_pull(stub, d.buffer)
         IN  IF pulled.payload # None
             THEN Returns([d EXCEPT !.buffer = pulled.buffer],
                          stub_packet(stub, pulled.payload[1]))
             ELSE Returns([d EXCEPT !.buffer = SubSeq(@, 1, Len(@) % 8)], OkNone)

\* Decoder::process_stub
process_stub(d, stub) ==
    IF stub.type = "Sync" THEN handle_sync([d EXCEPT !.sync = Some(stub.count)])
    ELSE LET pulled == stub_pull(stub, d.buffer)
         IN  IF pulled.payload # None
             THEN Returns([d EXCEPT !.buffer = pulled.buffer],
                          stub_packet(stub, pulled.payload[1]))
             ELSE Returns(d, OkNone)

\* next with packets_consumed counted before the buffer length is examined
next_counts_first(d) ==
    IF d.sync # None THEN handle_sync(d)
    ELSE IF Len(d.buffer) < 8
        THEN Returns([d EXCEPT !.ts_ctx.packets_consumed = @ + 1], OkNone)
    ELSE LET pb == pull_byte(d.buffer)
             d1 == [d EXCEPT !.ts_ctx.packets_consumed = @ + 1, !.buffer = pb.buffer]
             hv == decode_header(pb.byte)
         IN  IF hv.kind = "Err" THEN Returns(d1, hv)
             ELSE IF hv.kind = "Packet" THEN Returns(d1, OkSome(hv.packet))
             ELSE process_stub(d1, hv.stub)

\* Decoder::next
next(d) ==
    IF d.sync # None THEN handle_sync(d)
    ELSE IF Len(d.buffer) < 8 THEN Returns(d, OkNone)
    ELSE LET pb == pull_byte(d.buffer)
             d1 == [d EXCEPT !.ts_ctx.packets_consumed = @ + 1, !.buffer = pb.buffer]
             hv == decode_header(pb.byte)
         IN  IF hv.kind = "Err" THEN Returns(d1, hv)
             ELSE IF hv.kind = "Packet" THEN Returns(d1, OkSome(hv.packet))
             ELSE process_stub(d1, hv.stub)

-----------------------------------------------------------------------------
(* Timestamp correlator *)

\* Option<TimestampedTracePackets>, the value pull_with_timestamp returns
NoBatch == [kind |-> "None"]
SomeBatch(ttp) == [kind |-> "Batch", batch |-> ttp]

GTS2_TS_SHIFT == 26

\* assoc_packets_with_lts with delta overwritten by the local timestamp
assoc_packets_with_lts_overwrites(packets, malformed_packets, ts, lts, data_relation, packets_consumed) ==
    LET ts1 == [ts EXCEPT !.delta = Some(lts),
                          !.data_relation = Some(data_relation)]
    IN  [ts |-> ts1,
         packets_consumed |-> 0,
         ttp |-> [timestamp |-> ts1, packets |-> packets,
                  malformed_packets |-> malformed_packets,
                  packets_consumed |-> packets_consumed]]

\* assoc_packets_with_lts: the timestamp and the packet count it leaves behind
\* and the batch it returns
assoc_packets_with_lts(packets, malformed_packets, ts, lts, data_relation, packets_consumed) ==
    LET ts1 == [ts EXCEPT !.delta = IF @ # None THEN Some(u64_add(@[1], lts))
                                    ELSE Some(lts),
                          !.data_relation = Some(data_relation)]
    IN  [ts |-> ts1,
         packets_consumed |-> 0,
         ttp |-> [timestamp |-> ts1, packets |-> packets,
                  malformed_packets |-> malformed_packets,
                  packets_consumed |-> packets_consumed]]

\* lts_arm with the malformed packets left in the context
lts_arm_keeps_malformed(d, lts, data_relation) ==
    LET ctx == d.ts_ctx
        a == assoc_packets_with_lts(ctx.packets, <<>>, ctx.ts, lts,
                                    data_relation, ctx.packets_consumed)
    IN  [dec |-> [d EXCEPT !.ts_ctx = [ctx EXCEPT !.packets = <<>>,
                                                  !.ts = a.ts,
                                                  !.packets_consumed = a.packets_consumed]],
         ret |-> Some(SomeBatch(a.ttp))]

\* the two local timestamp arms: both vectors are drained into the batch
lts_arm(d, lts, data_relation) ==
    LET ctx == d.ts_ctx
        a == assoc_packets_with_lts(ctx.packets, ctx.malformed_packets, ctx.ts, lts,
                                    data_relation, ctx.packets_consumed)
    IN  [dec |-> [d EXCEPT !.ts_ctx = [ctx EXCEPT !.packets = <<>>,
                                                  !.malformed_packets = <<>>,
                                                  !.ts = a.ts,
                                                  !.packets_consumed = a.packets_consumed]],
         ret |-> Some(SomeBatch(a.ttp))]

\* gts1_arm with the clock change flag not looked at
gts1_arm_ignores_clkch(ctx, packet) ==
    LET c1 == [ctx EXCEPT !.gts1 = Some(packet.ts)]
    IN  IF packet.wrap THEN [c1 EXCEPT !.gts2 = None] ELSE c1

\* the GlobalTimestamp1 arm
gts1_arm(ctx, packet) ==
    LET c1 == [ctx EXCEPT !.gts1 = Some(packet.ts)]
        c2 == IF packet.wrap THEN [c1 EXCEPT !.gts2 = None] ELSE c1
    IN  IF packet.clkch THEN [c2 EXCEPT !.gts1 = None, !.gts2 = None] ELSE c2

\* pull_match without the Overflow arm: an Overflow is handled as a data packet
pull_match_overflow_as_data(d, res) ==
    LET ctx == d.ts_ctx
        only_gts == d.options.only_gts
        goes_on(c) == [dec |-> [d EXCEPT !.ts_ctx = c], ret |-> None]
    IN  IF res = Panic THEN [dec |-> d, ret |-> Some(Panic)]
        ELSE IF res = OkNone THEN [dec |-> d, ret |-> Some(NoBatch)]
        ELSE IF res.kind = "Packet" /\ res.packet.type = "LocalTimestamp1" /\ ~only_gts
            THEN lts_arm(d, res.packet.ts, res.packet.data_relation)
        ELSE IF res.kind = "Packet" /\ res.packet.type = "LocalTimestamp2" /\ ~only_gts
            THEN lts_arm(d, u64_from(res.packet.ts), "Sync")
        ELSE IF res.kind = "Packet" /\ res.packet.type = "GlobalTimestamp1"
            THEN goes_on(gts1_arm(ctx, res.packet))
        ELSE IF res.kind = "Packet" /\ res.packet.type = "GlobalTimestamp2"
            THEN goes_on([ctx EXCEPT !.gts2 = Some(res.packet.ts)])
        ELSE IF res.kind = "Packet" /\ ~only_gts
            THEN goes_on([ctx EXCEPT !.packets = Append(@, res.packet)])
        ELSE IF res.kind = "Err"
            THEN goes_on([ctx EXCEPT !.malformed_packets = Append(@, res.malformed)])
        ELSE IF res.kind = "Packet" /\ only_gts
            THEN [dec |-> d,
                  ret |-> Some(SomeBatch([timestamp |-> ctx.ts,
                                          packets |-> <<res.packet>>,
                                          malformed_packets |-> <<>>,
                                          packets_consumed |-> 1]))]
        ELSE [dec |-> d, ret |-> Some(Panic)]                  \* unreachable!()

\* the match of pull_with_timestamp's loop on the value res that next()
\* returned, its arms in source order; ret is Some(v) when the function
\* returns v and None when control goes on to the base computation
pull_match(d, res) ==
    LET ctx == d.ts_ctx
        only_gts == d.options.only_gts
        goes_on(c) == [dec |-> [d EXCEPT !.ts_ctx = c], ret |-> None]
    IN  IF res = Panic THEN [dec |-> d, ret |-> Some(Panic)]
        ELSE IF res = OkNone THEN [dec |-> d, ret |-> Some(NoBatch)]
        ELSE IF res.kind = "Packet" /\ res.packet.type = "LocalTimestamp1" /\ ~only_gts
            THEN lts_arm(d, res.packet.ts, res.packet.data_relation)
        ELSE IF res.kind = "Packet" /\ res.packet.type = "LocalTimestamp2" /\ ~only_gts
            THEN lts_arm(d, u64_from(res.packet.ts), "Sync")
        ELSE IF res.kind = "Packet" /\ res.packet.type = "GlobalTimestamp1"
            THEN goes_on(gts1_arm(ctx, res.packet))
        ELSE IF res.kind = "Packet" /\ res.packet.type = "GlobalTimestamp2"
            THEN goes_on([ctx EXCEPT !.gts2 = Some(res.packet.ts)])
        ELSE IF res.kind = "Packet" /\ res.packet.type = "Overflow"
            THEN goes_on([ctx EXCEPT !.ts.diverged = TRUE,
                                     !.packets = Append(@, res.packet)])
        ELSE IF res.kind = "Packet" /\ ~only_gts
            THEN goes_on([ctx EXCEPT !.packets = Append(@, res.packet)])
        ELSE IF res.kind = "Err"
            THEN goes_on([ctx EXCEPT !.malformed_packets = Append(@, res.malformed)])
        ELSE IF res.kind = "Packet" /\ only_gts
            THEN [dec |-> d,
                  ret |-> Some(SomeBatch([timestamp |-> ctx.ts,
                                          packets |-> <<res.packet>>,
                                          malformed_packets |-> <<>>,
                                          packets_consumed |-> 1]))]
        ELSE [dec |-> d, ret |-> Some(Panic)]                  \* unreachable!()

\* install_base run as soon as one half is pending, the missing half read as 0
install_base_eager(d) ==
    LET ctx == d.ts_ctx
        lower == IF ctx.gts1 # None THEN ctx.gts1[1] ELSE u64_from(0)
        upper == IF ctx.gts2 # None THEN ctx.gts2[1] ELSE u64_from(0)
    IN  IF ctx.gts1 # None \/ ctx.gts2 # None
        THEN [d EXCEPT !.ts_ctx.ts =
                           [Timestamp_default EXCEPT
                               !.base = Some(u64_or(u64_shl(upper, GTS2_TS_SHIFT), lower))],
                       !.ts_ctx.gts1 = None,
                       !.ts_ctx.gts2 = None]
        ELSE d

\* install_base with the base written into the timestamp as it stands
install_base_no_reset(d) ==
    LET ctx == d.ts_ctx
    IN  IF ctx.gts1 # None /\ ctx.gts2 # None
        THEN [d EXCEPT !.ts_ctx.ts.base =
                           Some(u64_or(u64_shl(ctx.gts2[1], GTS2_TS_SHIFT), ctx.gts1[1])),
                       !.ts_ctx.gts1 = None,
                       !.ts_ctx.gts2 = None]
        ELSE d

\* the base computation at the end of the loop body
install_base(d) ==
    LET ctx == d.ts_ctx
    IN  IF ctx.gts1 # None /\ ctx.gts2 # None
        THEN [d EXCEPT !.ts_ctx.ts =
                           [Timestamp_default EXCEPT
                               !.base = Some(u64_or(u64_shl(ctx.gts2[1], GTS2_TS_SHIFT),
                                                    ctx.gts1[1]))],
                       !.ts_ctx.gts1 = None,
                       !.ts_ctx.gts2 = None]
        ELSE d

\* the loop of pull_with_timestamp.  steps records every iteration: the
\* context it started with, what next() returned, the context after the match
\* arm, the context after the base computation and whether the arm returned.
RECURSIVE pull_loop(_, _)
pull_loop(d, steps) ==
    LET r == next(d)
        m == pull_match(r.dec, r.res)
        d2 == IF m.ret # None THEN m.dec ELSE install_base(m.dec)
        step == [before |-> d.ts_ctx, yielded |-> r.res, arm |-> m.dec.ts_ctx,
                 after |-> d2.ts_ctx, returned |-> m.ret # None]
    IN  IF m.ret # None
        THEN [dec |-> d2, ret |-> m.ret[1], steps |-> Append(steps, step)]
        ELSE pull_loop(d2, Append(steps, step))

\* Decoder::pull_with_timestamp
pull_with_timestamp(d) == pull_loop(d, <<>>)

-----------------------------------------------------------------------------
(* The inputs explored: synchronisation streams (zero bytes followed by a  *)
(* few bytes of SyncAlphabet), streams made of any                          *)
(* first byte followed by a few bytes of TailAlphabet, streams made of      *)
(* a header of HeaderAlphabet followed by more bytes of TailAlphabet,       *)
(* streams made of a timestamp header followed by one continuation-         *)
(* terminated payload, and the scenario streams.                            *)

SyncStream(s) ==
    /\ Len(s) <= MaxSyncStream
    /\ \E k \in 0..Len(s) :
        /\ Len(s) - k <= MaxSyncTail
        /\ \A i \in 1..k : s[i] = 0
        /\ \A i \in (k + 1)..Len(s) : s[i] \in SyncAlphabet
SweepStream(s) ==
    /\ Len(s) <= 1 + MaxSweepTail
    /\ \A i \in 2..Len(s) : s[i] \in TailAlphabet
PacketStream(s) ==
    /\ Len(s) <= 1 + MaxTail
    /\ Len(s) >= 1 => s[1] \in HeaderAlphabet
    /\ \A i \in 2..Len(s) : s[i] \in TailAlphabet
TimestampStream(s) ==
    /\ Len(s) <= 1 + MaxPayload
    /\ Len(s) >= 1 => s[1] \in TimestampHeaders
    /\ \A i \in 2..Len(s) : s[i] \in ContinueAlphabet \cup FinalAlphabet
    /\ \A i \in 2..(Len(s) - 1) : s[i] \in ContinueAlphabet
ScenarioStream(s) ==
    \E t \in ScenarioStreams : Len(s) <= Len(t) /\ s = SubSeq(t, 1, Len(s))
Allowed(s) ==
    \/ SyncStream(s) \/ SweepStream(s) \/ PacketStream(s)
    \/ TimestampStream(s) \/ ScenarioStream(s)

\* the bytes that may follow the bytes s
Ext(s) ==
    IF s = <<>> THEN Byte
    ELSE {b \in SyncAlphabet \cup TailAlphabet \cup ContinueAlphabet \cup FinalAlphabet
                 \cup UNION {{t[i] : i \in 1..Len(t)} : t \in ScenarioStreams} :
             Allowed(Append(s, b))}

\* the chunks of at most n bytes that may follow the bytes s
RECURSIVE ChunksUpTo(_, _)
ChunksUpTo(s, n) ==
    IF n = 0 THEN {<<>>}
    ELSE {<<>>} \cup UNION {{<<b>> \o c : c \in ChunksUpTo(Append(s, b), n - 1)} : b \in Ext(s)}

\* the chunks a push may hand over after the bytes s
Chunks(s) == ChunksUpTo(s, MaxChunk) \ {<<>>}

-----------------------------------------------------------------------------
(* The state machine *)

Dec == [options |-> options, buffer |-> buffer, sync |-> sync, ts_ctx |-> ts_ctx]

\* the header byte a call of next() on d pulls and what decode_header makes of
\* it; None when the call pulls no header
classified(d) ==
    IF d.sync = None /\ Len(d.buffer) >= 8
    THEN LET h == pull_byte(d.buffer).byte
         IN  Some([header |-> h, hv |-> decode_header(h)])
    ELSE None

Drained == last.op = "new" \/ (last.op = "next" /\ result = OkNone)

\* the state after Decoder::new(reader, opts)
Created(opts) ==
    /\ options = Decoder_new(opts).options
    /\ buffer = Decoder_new(opts).buffer
    /\ sync = Decoder_new(opts).sync
    /\ ts_ctx = Decoder_new(opts).ts_ctx
    /\ panicked = FALSE
    /\ result = OkNone
    /\ last = [op |-> "new", dec |-> Decoder_new(opts), classified |-> None]
    /\ stream = <<>>
    /\ outputs = <<>>
    /\ disciplined = TRUE
    /\ pull = <<>>
    /\ batches = <<>>
    /\ epoch = [start |-> 0, of |-> <<>>, at |-> <<>>]

Init == Created(DecoderOptions_default) /\ extract = None /\ cli = None

\* decoder.push(data)
Push ==
    /\ ~panicked
    /\ \E data \in Chunks(stream) :
        /\ buffer' = push(buffer, data)
        /\ stream' = stream \o data
    /\ last' = [op |-> "push", dec |-> Dec, classified |-> None]
    /\ disciplined' = (disciplined /\ Drained)
    /\ UNCHANGED <<options, sync, ts_ctx, panicked, result, outputs, pull, batches,
                   epoch, extract, cli>>

\* decoder.next()
Next_ ==
    /\ ~panicked
    /\ LET r == next(Dec)
       IN  /\ buffer' = r.dec.buffer
           /\ sync' = r.dec.sync
           /\ ts_ctx' = r.dec.ts_ctx
           /\ result' = r.res
           /\ panicked' = (r.res = Panic)
           /\ outputs' = IF r.res = OkNone THEN outputs ELSE Append(outputs, r.res)
    /\ last' = [op |-> "next", dec |-> Dec, classified |-> classified(Dec)]
    /\ UNCHANGED <<options, stream, disciplined, pull, batches, epoch, extract, cli>>

Next == Push \/ Next_

Spec == Init /\ [][Next]_vars

-----------------------------------------------------------------------------
(* extract_timestamp on its own: the payloads that encode a value *)

\* most set bits of an encoded value
MaxOnes == 2
\* longest encoding of a value
MaxEncoding == 6
\* the max_len arguments process_stub passes: LTS1, GTS1, GTS2 (48 and 64 bit)
MaxLens == {27, 25, 47 - 26, 63 - 26}

\* the u64 whose set bits are the bit numbers in S
u64_of_bits(S) == [i \in 1..U64_BITS |-> IF (i - 1) \in S THEN 1 ELSE 0]
\* the sets of at most k bit numbers below width
RECURSIVE BitSets(_, _)
BitSets(width, k) ==
    IF k = 0 THEN {{}}
    ELSE BitSets(width, k - 1)
         \cup {S \cup {b} : S \in BitSets(width, k - 1), b \in 0..(width - 1)}
\* the values below 2^width with at most MaxOnes set bits
Values(width) == {u64_of_bits(S) : S \in BitSets(width, MaxOnes)}
\* the 7 bits of v from bit 7 * k on, as a number
Group(v, k) ==
    v[7 * k + 1] + 2 * v[7 * k + 2] + 4 * v[7 * k + 3] + 8 * v[7 * k + 4]
    + 16 * v[7 * k + 5] + 32 * v[7 * k + 6] + 64 * v[7 * k + 7]
\* v as a continuation-terminated payload of n bytes: 7 value bits per byte,
\* least significant group first, bit 7 set on every byte but the last
Encode(v, n) == [k \in 1..n |-> Group(v, k - 1) + (IF k < n THEN 128 ELSE 0)]
\* n bytes hold v
Holds(v, n) == Below(v, 7 * n)

-----------------------------------------------------------------------------
(* The decoder driven through pull_with_timestamp alone, fed whole packets *)

\* most packets pushed
MaxFrames == 3

\* LTS1 (UnknownDelay, ts 131), LTS2 (ts 2), GTS1 (ts 7), GTS1 with wrap
\* (ts 9), GTS1 with clkch (ts 7), GTS2 (ts 2^21 + 1), Overflow,
\* Instrumentation (port 0), a header with the reserved size
Frames ==
    {<<208, 131, 1>>, <<32>>, <<148, 7>>, <<148, 73>>, <<148, 39>>,
     <<180, 129, 128, 128, 1>>, <<112>>, <<1, 171>>, <<4>>}

\* the number of packets of Frames the bytes s are made of
RECURSIVE FrameCount(_)
FrameCount(s) ==
    IF s = <<>> THEN 0
    ELSE LET f == CHOOSE g \in Frames : Len(g) <= Len(s) /\ SubSeq(s, 1, Len(g)) = g
         IN  1 + FrameCount(SubSeq(s, Len(f) + 1, Len(s)))

TsInit ==
    /\ \E only_gts \in BOOLEAN :
           Created([only_gts |-> only_gts, keep_reading |-> TRUE])
    /\ extract = None
    /\ cli = None

\* decoder.push(frame)
PushFrame ==
    /\ ~panicked
    /\ FrameCount(stream) < MaxFrames
    /\ \E data \in Frames :
        /\ buffer' = push(buffer, data)
        /\ stream' = stream \o data
    /\ last' = [op |-> "push", dec |-> Dec, classified |-> None]
    /\ UNCHANGED <<options, sync, ts_ctx, panicked, result, outputs, disciplined,
                   pull, batches, epoch, extract, cli>>

\* the values next() returned in the iterations steps, Ok(None) left out
Yielded(steps) ==
    SelectSeq([i \in 1..Len(steps) |-> steps[i].yielded], LAMBDA y : y # OkNone)

\* the iterations of steps that installed a base
Installs(steps) == {i \in 1..Len(steps) : steps[i].after # steps[i].arm}
Latest(S) == CHOOSE i \in S : \A j \in S : j <= i

\* decoder.pull_with_timestamp()
PullWithTimestamp ==
    /\ ~panicked
    /\ \E r \in {pull_with_timestamp(Dec)} :
           /\ buffer' = r.dec.buffer
           /\ sync' = r.dec.sync
           /\ ts_ctx' = r.dec.ts_ctx
           /\ result' = r.ret
           /\ panicked' = (r.ret = Panic)
           /\ pull' = r.steps
           /\ outputs' = outputs \o Yielded(r.steps)
           /\ batches' = IF r.ret.kind = "Batch" THEN Append(batches, r.ret.batch)
                         ELSE batches
           /\ \E start \in {IF Installs(r.steps) = {} THEN epoch.start
                             ELSE Len(outputs) + Latest(Installs(r.steps))} :
                epoch' = [start |-> start,
                          of |-> IF r.ret.kind = "Batch" THEN Append(epoch.of, start)
                                 ELSE epoch.of,
                          at |-> IF r.ret.kind = "Batch"
                                 THEN Append(epoch.at, Len(outputs) + Len(Yielded(r.steps)))
                                 ELSE epoch.at]
    /\ last' = [op |-> "pull", dec |-> Dec, classified |-> None]
    /\ UNCHANGED <<options, stream, disciplined, extract, cli>>

TsNext == PushFrame \/ PullWithTimestamp

TsSpec == TsInit /\ [][TsNext]_vars

-----------------------------------------------------------------------------
(* The decoder driven through pull_with_timestamp over several epochs *)

\* most packets pushed
MaxEpochFrames == 4

\* GTS1 (ts 7), GTS1 with wrap (ts 9), GTS2 (ts 2^21 + 1), Overflow, LTS2 (ts 2)
EpochFrames == {<<148, 7>>, <<148, 73>>, <<180, 129, 128, 128, 1>>, <<112>>, <<32>>}

\* decoder.push(frame)
PushEpochFrame ==
    /\ ~panicked
    /\ FrameCount(stream) < MaxEpochFrames
    /\ \E data \in EpochFrames :
        /\ buffer' = push(buffer, data)
        /\ stream' = stream \o data
    /\ last' = [op |-> "push", dec |-> Dec, classified |-> None]
    /\ UNCHANGED <<options, sync, ts_ctx, panicked, result, outputs, disciplined,
                   pull, batches, epoch, extract, cli>>

EpochNext == PushEpochFrame \/ PullWithTimestamp

EpochSpec == TsInit /\ [][EpochNext]_vars

ExtractInit ==
    /\ Created(DecoderOptions_default)
    /\ \E max_len \in MaxLens, n \in 1..MaxEncoding :
        \E v \in {w \in Values(max_len) : Holds(w, n)} :
            extract = [value |-> v, payload |-> Encode(v, n), max_len |-> max_len,
                       ts |-> None]
    /\ cli = None

\* extract_timestamp(payload, max_len)
ExtractTimestamp ==
    /\ extract.ts = None
    /\ extract' = [extract EXCEPT
                      !.ts = Some(extract_timestamp(extract.payload, extract.max_len))]
    /\ UNCHANGED <<options, buffer, sync, ts_ctx, panicked, result, last, stream,
                   outputs, disciplined, pull, batches, epoch, cli>>

ExtractNext == ExtractTimestamp

ExtractSpec == ExtractInit /\ [][ExtractNext]_vars

-----------------------------------------------------------------------------
(* The command line tool: the read loop of main *)

\* longest input file
MaxFile == 8
\* bytes of the input files: Overflow and LTS2 (ts 1), packets of one byte
FileAlphabet == {112, 16}
\* the size of the buffer handed to read()
READ_BUF == 8

\* the input files
RECURSIVE FilesUpTo(_)
FilesUpTo(n) ==
    IF n = 0 THEN {<<>>}
    ELSE FilesUpTo(n - 1)
         \cup {Append(f, b) : f \in {g \in FilesUpTo(n - 1) : Len(g) = n - 1},
                              b \in FileAlphabet}

\* the state main enters its loop with.  The decoder is the one of the
\* construction that line 47 names, Decoder::new(DecoderOptions::default());
\* --stimulus-strings changes what is printed only and is left out.
CliInit ==
    /\ Created(DecoderOptions_default)
    /\ extract = None
    /\ \E f \in FilesUpTo(MaxFile), naive \in BOOLEAN :
           cli = [input |-> f, file |-> f, naive |-> naive, pc |-> "loop"]

\* what the call of decoder.next() at the top of the loop does
CliCalls(r) ==
    /\ cli # None
    /\ cli.pc = "loop"
    /\ r = next(Dec)
    /\ sync' = r.dec.sync
    /\ ts_ctx' = r.dec.ts_ctx
    /\ result' = r.res
    /\ last' = [op |-> "next", dec |-> Dec, classified |-> classified(Dec)]

\* [0_u8; 8] after read() has put the bytes got into its front
Zeros(n) == [i \in 1..n |-> 0]
ReadBuf(got) == got \o Zeros(READ_BUF - Len(got))

\* the Ok(None) arm when read() returns n > 0 bytes: the WHOLE of buf is pushed
CliRead ==
    \E r \in {next(Dec)} :
        /\ CliCalls(r)
        /\ r.res = OkNone
        /\ cli.file # <<>>
        /\ \E n \in 1..(IF Len(cli.file) < READ_BUF THEN Len(cli.file) ELSE READ_BUF) :
               /\ buffer' = push(r.dec.buffer, ReadBuf(SubSeq(cli.file, 1, n)))
               /\ stream' = stream \o ReadBuf(SubSeq(cli.file, 1, n))
               /\ cli' = [cli EXCEPT !.file = SubSeq(@, n + 1, Len(@))]
        /\ UNCHANGED <<options, panicked, outputs, disciplined, pull, batches, epoch,
                       extract>>

\* the Ok(None) arm when read() returns 0: break
CliEof ==
    \E r \in {next(Dec)} :
        /\ CliCalls(r)
        /\ r.res = OkNone
        /\ cli.file = <<>>
        /\ buffer' = r.dec.buffer
        /\ cli' = [cli EXCEPT !.pc = "done"]
        /\ UNCHANGED <<options, panicked, stream, outputs, disciplined, pull, batches,
                       epoch, extract>>

\* the Ok(Some(packet)) arms: the packet is printed
CliPacket ==
    \E r \in {next(Dec)} :
        /\ CliCalls(r)
        /\ r.res.kind = "Packet"
        /\ buffer' = r.dec.buffer
        /\ outputs' = Append(outputs, r.res)
        /\ UNCHANGED <<options, panicked, stream, disciplined, pull, batches, epoch,
                       extract, cli>>

\* the Err(e) arms: the error is printed; break unless --naive
CliError ==
    \E r \in {next(Dec)} :
        /\ CliCalls(r)
        /\ r.res.kind = "Err"
        /\ buffer' = r.dec.buffer
        /\ outputs' = Append(outputs, r.res)
        /\ cli' = [cli EXCEPT !.pc = IF cli.naive THEN "loop" ELSE "failed"]
        /\ UNCHANGED <<options, panicked, stream, disciplined, pull, batches, epoch,
                       extract>>

\* decoder.next() panics and main unwinds
CliPanic ==
    \E r \in {next(Dec)} :
        /\ CliCalls(r)
        /\ r.res = Panic
        /\ buffer' = r.dec.buffer
        /\ panicked' = TRUE
        /\ cli' = [cli EXCEPT !.pc = "panicked"]
        /\ UNCHANGED <<options, stream, outputs, disciplined, pull, batches, epoch,
                       extract>>

CliNext == CliRead \/ CliEof \/ CliPacket \/ CliError \/ CliPanic

CliSpec == CliInit /\ [][CliNext]_vars

-----------------------------------------------------------------------------
(* Vocabulary of the properties *)

\* the last operation was a call of next()
AfterNext == last.op = "next"
\* the decoder before the last operation
Pre == last.dec
\* the number of bits the last operation removed from the buffer
Consumed == Len(Pre.buffer) - Len(buffer)
\* the buffer is what it was with its first k bits (in arrival order) removed
Removed(k) == k <= Len(Pre.buffer) /\ buffer = SubSeq(Pre.buffer, 1, Len(Pre.buffer) - k)
\* the k-th bit (k >= 1) and the k-th byte of a buffer in arrival order
BitAt(buf, k) == buf[Len(buf) + 1 - k]
ByteAt(buf, k) ==
    LET o == 8 * (k - 1)
    IN  BitAt(buf, o + 1) + 2 * BitAt(buf, o + 2) + 4 * BitAt(buf, o + 3)
        + 8 * BitAt(buf, o + 4) + 16 * BitAt(buf, o + 5) + 32 * BitAt(buf, o + 6)
        + 64 * BitAt(buf, o + 7) + 128 * BitAt(buf, o + 8)
\* the number of zero bits a buffer starts with, in arrival order
RECURSIVE LeadingZeros(_)
LeadingZeros(buf) ==
    IF buf = <<>> \/ buf[Len(buf)] = 1 THEN 0
    ELSE 1 + LeadingZeros(SubSeq(buf, 1, Len(buf) - 1))
\* the last call pulled a header byte
Classified == AfterNext /\ last.classified # None
Header == last.classified[1].header
Hv == last.classified[1].hv

\* what a fresh decoder returns, call after call, when it is given the whole
\* of s in one push and drained until Ok(None)
RECURSIVE Drain(_, _)
Drain(d, outs) ==
    LET r == next(d)
    IN  IF r.res = OkNone THEN outs
        ELSE IF r.res = Panic THEN Append(outs, r.res)
        ELSE Drain(r.dec, Append(outs, r.res))
SinglePush(s) == Drain([Decoder_new(options) EXCEPT !.buffer = push(<<>>, s)], <<>>)

-----------------------------------------------------------------------------
(* Chunking and resynchronisation *)

\* C1 (as claimed): chunk invariance.  Whenever the stream pushed so far was
\* fed chunk by chunk, each push followed by draining next() until Ok(None),
\* and the decoder is drained, the packets and malformed packets returned so
\* far are those a single push of the whole stream followed by draining gives.
C1_ChunkInvariance ==
    (disciplined /\ AfterNext /\ result = OkNone) => outputs = SinglePush(stream)

\* C2 (as claimed): resync correctness.  When next() is called in Normal state
\* on a buffer that starts with n >= 47 zero bits followed by a set bit, it
\* returns Sync, has consumed exactly the n zero bits and the set bit, and is
\* back in Normal, so that the next header is the following 8 bits.
C2_ResyncCorrectness ==
    (/\ AfterNext
     /\ Pre.sync = None
     /\ LeadingZeros(Pre.buffer) >= SYNC_MIN_ZEROS
     /\ LeadingZeros(Pre.buffer) < Len(Pre.buffer))
    => (/\ result = OkSome([type |-> "Sync"])
        /\ Removed(LeadingZeros(Pre.buffer) + 1)
        /\ sync = None)

\* C3 (as claimed): a synchronisation packet that is cut off by the end of the
\* buffer.  When next() is called in Normal state on a buffer made of 8 to 47
\* zero bits only, it returns Ok(None) and the decoder stays in Syncing with
\* the number of zero bits seen so far.
C3_SyncStall ==
    (/\ AfterNext
     /\ Pre.sync = None
     /\ Len(Pre.buffer) >= 8
     /\ Len(Pre.buffer) <= SYNC_MIN_ZEROS
     /\ LeadingZeros(Pre.buffer) = Len(Pre.buffer))
    => (/\ result = OkNone
        /\ ~panicked
        /\ sync = Some(Len(Pre.buffer))
        /\ buffer = <<>>)

\* C4 (as claimed): InvalidSync(count) is returned only when a set bit is
\* popped after fewer than 47 zero bits; count is the number of zero bits
\* consumed (the 8 of the header included), the set bit is consumed and the
\* decoder is back in Normal.
C4_InvalidSync ==
    (AfterNext /\ result.kind = "Err" /\ result.malformed.type = "InvalidSync")
    => (/\ result.malformed.count < SYNC_MIN_ZEROS
        /\ BitAt(Pre.buffer, Consumed) = 1
        /\ result.malformed.count = Consumed - 1
        /\ LeadingZeros(Pre.buffer) = Consumed - 1
        /\ sync = None)

-----------------------------------------------------------------------------
(* Malformed packets and stalls *)

ClassificationErrors == {"InvalidHeader", "InvalidHardwareDisc", "InvalidSourcePayload"}
StubBodyErrors ==
    {"InvalidHardwarePacket", "InvalidExceptionTrace", "InvalidPCSampleSize",
     "InvalidGTS2Size"}

\* the payload length in bytes that the size field ss announces (Table D4-4)
SsLen(ss) == CASE ss = 1 -> 1 [] ss = 2 -> 2 [] ss = 3 -> 4 [] OTHER -> 0

\* the number of bytes, from the k-th byte of buf in arrival order on, up to
\* and including the first one whose bit 7 is clear; 0 when there is none
RECURSIVE ContinuationLen(_, _)
ContinuationLen(buf, k) ==
    IF 8 * k > Len(buf) THEN 0
    ELSE IF BitAt(buf, 8 * k) = 0 THEN 1
    ELSE LET rest == ContinuationLen(buf, k + 1)
         IN  IF rest = 0 THEN 0 ELSE 1 + rest

\* the length in bytes of the body of the packet that starts buf: fixed by the
\* header's size field for a source packet, continuation-terminated for a
\* timestamp packet
BodyLen(buf) ==
    LET h == ByteAt(buf, 1)
    IN  IF h \in {148, 180} \/ (h >= 192 /\ h % 16 = 0) THEN ContinuationLen(buf, 2)
        ELSE SsLen(h % 4)

\* C5: whenever next() returns a malformed packet, exactly the bad packet has
\* been consumed (the header byte alone for a classification error, the header
\* and the complete body for a stub-body error) and the decoder is in Normal
\* state, so that the following call takes the next byte as a header.
C5_ErrConsumesPacket ==
    (AfterNext /\ result.kind = "Err")
    => (/\ sync = None
        /\ result.malformed.type \in ClassificationErrors => Removed(8)
        /\ result.malformed.type \in StubBodyErrors =>
              (/\ BodyLen(Pre.buffer) > 0
               /\ Removed(8 + 8 * BodyLen(Pre.buffer)))
        /\ result.malformed.type \in ClassificationErrors \cup StubBodyErrors =>
              (Len(buffer) >= 8 =>
                  classified(Dec)
                      = Some([header |-> ByteAt(buffer, 1),
                              hv |-> decode_header(ByteAt(buffer, 1))])))

\* a stub-body error was returned and a further byte is buffered behind the
\* bad packet
C5_Witness ==
    /\ AfterNext
    /\ result.kind = "Err"
    /\ result.malformed.type = "InvalidHardwarePacket"
    /\ BodyLen(Pre.buffer) = 2
    /\ Len(buffer) >= 8

\* C6: in Normal state with fewer than 8 buffered bits next() returns Ok(None)
\* and leaves the buffer, the sync state and the whole timestamp context
\* (packets_consumed included) as they were.
C6_ShortBufferFrame ==
    (AfterNext /\ Pre.sync = None /\ Len(Pre.buffer) < 8)
    => (result = OkNone /\ Dec = Pre /\ ~panicked)

\* next() was called in Normal state on 1 to 7 buffered bits, after packets
\* had been consumed
C6_Witness ==
    /\ AfterNext
    /\ Pre.sync = None
    /\ Len(Pre.buffer) \in 1..7
    /\ Pre.ts_ctx.packets_consumed > 0
    /\ result = OkNone

-----------------------------------------------------------------------------
(* Header classification *)

NoRow == [kind |-> "NoRow"]

\* the classifier table, its rows tested top to bottom
TableRow(h) ==
    IF h = 0 THEN HvStub([type |-> "Sync", count |-> 8])
    ELSE IF h = 112 THEN HvPacket([type |-> "Overflow"])
    ELSE IF h = 192 THEN HvStub([type |-> "LocalTimestamp", data_relation |-> "Sync"])
    ELSE IF h = 208
        THEN HvStub([type |-> "LocalTimestamp", data_relation |-> "UnknownDelay"])
    ELSE IF h = 224
        THEN HvStub([type |-> "LocalTimestamp", data_relation |-> "AssocEventDelay"])
    ELSE IF h = 240
        THEN HvStub([type |-> "LocalTimestamp", data_relation |-> "UnknownAssocEventDelay"])
    ELSE IF \E t \in 1..6 : h = 16 * t
        THEN HvPacket([type |-> "LocalTimestamp2", ts |-> h \div 16])
    ELSE IF h = 148 THEN HvStub([type |-> "GlobalTimestamp1"])
    ELSE IF h = 180 THEN HvStub([type |-> "GlobalTimestamp2"])
    ELSE IF \E pg \in 0..7 : h = 16 * pg + 8
        THEN HvPacket([type |-> "Extension", page |-> h \div 16])
    ELSE IF h % 4 # 0 /\ (h \div 4) % 2 = 0
        THEN HvStub([type |-> "Instrumentation", port |-> h \div 8,
                     expected_size |-> SsLen(h % 4)])
    ELSE IF h % 4 # 0 /\ (h \div 4) % 2 = 1 /\ (h \div 8) \in (0..2) \cup (8..23)
        THEN HvStub([type |-> "HardwareSource", disc_id |-> h \div 8,
                     expected_size |-> SsLen(h % 4)])
    ELSE NoRow

\* C7: every header byte that matches a non-error row of the classifier table
\* is classified as the first matching row says.
C7_ClassifierTable ==
    Classified => (TableRow(Header) # NoRow => Hv = TableRow(Header))

\* next() classified 0x70, which matches the Overflow row and the bit pattern
\* of the LocalTimestamp2 row
C7_Witness ==
    Classified /\ Header = 112 /\ result = OkSome([type |-> "Overflow"])

\* C8 (as claimed): pushing [0x04] into a fresh decoder makes next() return
\* Err(InvalidHeader(0x04)).
C8_InvalidHeader ==
    (Classified /\ stream = <<4>> /\ Header = 4)
    => result = Err([type |-> "InvalidHeader", header |-> 4])

\* C8 (amended): no header byte is rejected with InvalidHeader, every byte
\* matches a pattern of the classifier; the byte 0x04 is a hardware source
\* header with the reserved size and is rejected with
\* InvalidSourcePayload{header = 0x04, size = 0}.
C8_NoInvalidHeader ==
    /\ (AfterNext /\ result.kind = "Err") => result.malformed.type # "InvalidHeader"
    /\ (Classified /\ Header = 4)
       => result = Err([type |-> "InvalidSourcePayload", header |-> 4, size |-> 0])

\* [0x04] was pushed into a fresh decoder and next() was called
C8_Witness ==
    Classified /\ stream = <<4>> /\ Header = 4 /\ result.kind = "Err"

\* the headers of the Sync, Overflow, LTS1, LTS2, GTS1, GTS2 and Extension rows
ProtocolHeader(h) ==
    \/ h \in {0, 112, 148, 180, 192, 208, 224, 240}
    \/ \E t \in 1..6 : h = 16 * t
    \/ \E pg \in 0..7 : h = 16 * pg + 8

\* C9 (as claimed): every source-packet header whose size field is 00 is
\* rejected with InvalidSourcePayload{header, size = 0}, whatever its port or
\* discriminator.
C9_ReservedSize ==
    (Classified /\ ~ProtocolHeader(Header) /\ Header % 4 = 0)
    => result = Err([type |-> "InvalidSourcePayload", header |-> Header, size |-> 0])

\* C9 (amended): a source-packet header whose size field is 00 is rejected
\* with InvalidSourcePayload{header, size = 0}, except a hardware source
\* header (bit 2 set) whose discriminator is outside [0,2] U [8,23], which is
\* rejected with InvalidHardwareDisc{disc_id, size = 0}.
C9_ReservedSizeAmended ==
    (Classified /\ ~ProtocolHeader(Header) /\ Header % 4 = 0)
    => IF (Header \div 4) % 2 = 1 /\ (Header \div 8) \notin (0..2) \cup (8..23)
       THEN result = Err([type |-> "InvalidHardwareDisc",
                          disc_id |-> Header \div 8, size |-> 0])
       ELSE result = Err([type |-> "InvalidSourcePayload",
                          header |-> Header, size |-> 0])

\* next() classified 0x84, a hardware source header with a valid
\* discriminator (16) and the reserved size
C9_Witness ==
    /\ Classified
    /\ Header = 132
    /\ result = Err([type |-> "InvalidSourcePayload", header |-> 132, size |-> 0])

\* C10 (as claimed): a hardware source header with ss # 00 whose discriminator
\* a is outside [0,2] U [8,23] is rejected with InvalidHardwareDisc{disc_id = a,
\* size}, size being the payload length in bytes that ss announces (1, 2, 4).
C10_InvalidHardwareDisc ==
    (/\ Classified
     /\ (Header \div 4) % 2 = 1
     /\ Header % 4 # 0
     /\ (Header \div 8) \notin (0..2) \cup (8..23))
    => result = Err([type |-> "InvalidHardwareDisc", disc_id |-> Header \div 8,
                     size |-> SsLen(Header % 4)])

-----------------------------------------------------------------------------
(* Source packets *)

\* the n bytes that follow the header in the buffer the last call started with
BodyBytes(n) == [k \in 1..n |-> ByteAt(Pre.buffer, k + 1)]

\* C11 (as claimed): pushing [0x0A, 0xAB] into a fresh decoder and calling
\* next() once yields Instrumentation{port = 1, payload = [0xAB]}, the header
\* 0x0A announcing port 1 with a 1-byte payload.
C11_InstrumentationScenario ==
    (AfterNext /\ stream = <<10, 171>> /\ Pre = [Decoder_new(options) EXCEPT
                                                  !.buffer = push(<<>>, <<10, 171>>)])
    => result = OkSome([type |-> "Instrumentation", port |-> 1, payload |-> <<171>>])

\* C11 (amended): the header that announces port 1 with a 1-byte payload is
\* 0x09 (00001_0_01), and [0x09, 0xAB] yields Instrumentation{port = 1,
\* payload = [0xAB]}; 0x0A (00001_0_10) announces port 1 with a 2-byte payload,
\* so on [0x0A, 0xAB] next() returns Ok(None).  In general an instrumentation
\* header h yields Instrumentation{port = h >> 3, payload = the 1, 2 or 4
\* bytes (ss = 01, 10, 11) that follow h in the stream} when these bytes are
\* buffered, and Ok(None) when they are not.
C11_InstrumentationAmended ==
    /\ (Classified /\ Hv.kind = "Stub" /\ Hv.stub.type = "Instrumentation")
       => IF Len(Pre.buffer) >= 8 + 8 * SsLen(Header % 4)
          THEN result = OkSome([type |-> "Instrumentation", port |-> Header \div 8,
                                payload |-> BodyBytes(SsLen(Header % 4))])
          ELSE result = OkNone
    /\ (Classified /\ Header \in {9, 10})
       => (Hv.kind = "Stub" /\ Hv.stub.type = "Instrumentation" /\ Header \div 8 = 1
           /\ SsLen(Header % 4) = Header - 8)
    /\ (AfterNext /\ stream = <<10, 171>>
           /\ Pre = [Decoder_new(options) EXCEPT !.buffer = push(<<>>, <<10, 171>>)])
       => result = OkNone

\* [0x09, 0xAB] was pushed into a fresh decoder and next() returned the
\* instrumentation packet of port 1
C11_Witness ==
    /\ AfterNext
    /\ stream = <<9, 171>>
    /\ Pre = [Decoder_new(options) EXCEPT !.buffer = push(<<>>, <<9, 171>>)]
    /\ result = OkSome([type |-> "Instrumentation", port |-> 1, payload |-> <<171>>])

\* the last call classified a hardware source header with discriminator disc
HardwareStub(disc) ==
    Classified /\ Hv.kind = "Stub" /\ Hv.stub.type = "HardwareSource"
    /\ Hv.stub.disc_id = disc

\* the u32 pc is made of the four bytes p, least significant first
LittleEndian(pc, p) ==
    /\ pc.lo % 256 = p[1] /\ pc.lo \div 256 = p[2]
    /\ pc.hi % 256 = p[3] /\ pc.hi \div 256 = p[4]

\* C12: a hardware source packet with discriminator 2 whose payload is
\* buffered yields PCSample{pc = None} for the 1-byte payload 0,
\* PCSample{pc = Some(v)} for a 4-byte payload, v being the little-endian u32
\* of the four bytes in stream order (0x11223344 for [0x17, 0x44, 0x33, 0x22,
\* 0x11]), and InvalidPCSampleSize carrying the payload for every other
\* payload (1 byte non-zero, 2 bytes).
C12_PCSample ==
    /\ (HardwareStub(2) /\ Len(Pre.buffer) >= 8 + 8 * SsLen(Header % 4))
       => LET p == BodyBytes(SsLen(Header % 4))
          IN  IF Len(p) = 1 /\ p[1] = 0
              THEN result = OkSome([type |-> "PCSample", pc |-> None])
              ELSE IF Len(p) = 4
              THEN /\ result.kind = "Packet"
                   /\ result.packet.type = "PCSample"
                   /\ result.packet.pc # None
                   /\ LittleEndian(result.packet.pc[1], p)
              ELSE result = Err([type |-> "InvalidPCSampleSize", payload |-> p])
    /\ (AfterNext /\ Pre = [Decoder_new(options) EXCEPT
                                !.buffer = push(<<>>, <<23, 68, 51, 34, 17>>)])
       => result = OkSome([type |-> "PCSample",
                           pc |-> Some([lo |-> 13124, hi |-> 4386])])

\* [0x17, 0x44, 0x33, 0x22, 0x11] was decoded into a PC sample
C12_Witness ==
    /\ HardwareStub(2)
    /\ stream = <<23, 68, 51, 34, 17>>
    /\ Len(Pre.buffer) = 40
    /\ result.kind = "Packet"

-----------------------------------------------------------------------------
(* Timestamp packets *)

\* the last call classified the header of a timestamp packet whose
\* continuation-terminated payload is completely buffered
TimestampStub(type) ==
    Classified /\ Hv.kind = "Stub" /\ Hv.stub.type = type
    /\ ContinuationLen(Pre.buffer, 2) > 0
\* that payload
TimestampPayload == BodyBytes(ContinuationLen(Pre.buffer, 2))

\* the u64 whose low `width` bits are the 7-bit groups of the payload p, least
\* significant group first, and whose other bits are clear
Groups(p, width) ==
    [i \in 1..U64_BITS |->
        IF i <= width /\ i <= 7 * Len(p)
        THEN BitOf(p[((i - 1) \div 7) + 1], (i - 1) % 7) ELSE 0]

\* C13: a GlobalTimestamp2 header followed by a complete continuation-
\* terminated payload yields GlobalTimestamp2 only when the payload has exactly
\* 4 or 6 bytes, ts being the unshifted upper word (22 bits [47:26], 38 bits
\* [63:26]); any other length yields InvalidGTS2Size carrying the whole
\* payload; in both cases header and payload have left the buffer.
C13_GTS2Size ==
    TimestampStub("GlobalTimestamp2")
    => LET p == TimestampPayload
       IN  /\ Removed(8 + 8 * Len(p))
           /\ IF Len(p) \in {4, 6}
              THEN result = OkSome([type |-> "GlobalTimestamp2",
                                    ts |-> Groups(p, IF Len(p) = 4 THEN 22 ELSE 38)])
              ELSE result = Err([type |-> "InvalidGTS2Size", payload |-> p])

\* a 6-byte GlobalTimestamp2 payload with bits above bit 37 of the upper word
\* set in its last byte was decoded
C13_Witness ==
    /\ TimestampStub("GlobalTimestamp2")
    /\ Len(TimestampPayload) = 6
    /\ TimestampPayload[6] = 127
    /\ result.kind = "Packet"

\* the last call returned the packet of the given type
Returned(type) == AfterNext /\ result.kind = "Packet" /\ result.packet.type = type

\* C14 (as claimed): every timestamp packet next() emits respects its declared
\* field width: LocalTimestamp1 is built from a payload of 1 to 4 bytes and
\* has ts < 2^27, LocalTimestamp2 has ts in 1..6, GlobalTimestamp1 has
\* ts < 2^26, GlobalTimestamp2 has ts < 2^22 (4-byte payload) or ts < 2^38
\* (6-byte payload).
C14_TimestampWidths ==
    /\ Returned("LocalTimestamp1")
       => (Len(TimestampPayload) \in 1..4 /\ Below(result.packet.ts, 27))
    /\ Returned("LocalTimestamp2") => result.packet.ts \in 1..6
    /\ Returned("GlobalTimestamp1") => Below(result.packet.ts, 26)
    /\ Returned("GlobalTimestamp2")
       => Below(result.packet.ts, IF Len(TimestampPayload) = 4 THEN 22 ELSE 38)

\* C15 (as claimed): timestamp extraction round trip.  For each max_bits the
\* decoder uses and every value v below 2^max_bits, v encoded as a
\* continuation-terminated payload of any length that holds v and decoded with
\* extract_timestamp(payload, max_bits) gives v.
C15_RoundTrip ==
    (extract # None /\ extract.ts # None) => extract.ts[1] = extract.value

-----------------------------------------------------------------------------
(* Timestamp correlation *)

\* the last operation was a call of pull_with_timestamp()
AfterPull == last.op = "pull"
\* y is a packet of one of the given types returned by next()
IsPacket(y, types) == y.kind = "Packet" /\ y.packet.type \in types
LocalTimestamps == {"LocalTimestamp1", "LocalTimestamp2"}
GlobalTimestamps == {"GlobalTimestamp1", "GlobalTimestamp2"}

\* where the local timestamps stand among the values next() returned
LtsPositions ==
    SelectSeq([i \in 1..Len(outputs) |-> i],
              LAMBDA i : IsPacket(outputs[i], LocalTimestamps))
\* what next() returned after the (k-1)-th local timestamp and before the k-th
Segment(k) ==
    SubSeq(outputs, IF k = 1 THEN 1 ELSE LtsPositions[k - 1] + 1, LtsPositions[k] - 1)
\* the packets that are no timestamps, and the malformed packets, of ys
PacketsOf(ys) ==
    LET sel == SelectSeq(ys, LAMBDA y : y.kind = "Packet"
                                 /\ ~IsPacket(y, LocalTimestamps \cup GlobalTimestamps))
    IN  [i \in 1..Len(sel) |-> sel[i].packet]
MalformedOf(ys) ==
    LET sel == SelectSeq(ys, LAMBDA y : y.kind = "Err")
    IN  [i \in 1..Len(sel) |-> sel[i].malformed]
\* the data relation a local timestamp gives its batch
RelationOf(packet) ==
    IF packet.type = "LocalTimestamp2" THEN "Sync" ELSE packet.data_relation

\* C16: with only_gts = false, pull_with_timestamp returns a batch exactly when
\* next() yields a LocalTimestamp1 or LocalTimestamp2 (LTS2 giving
\* data_relation = Sync); the batch's packets and malformed_packets are
\* exactly the non-timestamp packets and the malformed packets next() produced
\* after the previous batch-closing local timestamp and before this one, in
\* stream order, and both accumulation buffers are empty afterwards.
C16_BatchOnLocalTimestamp ==
    ~options.only_gts
    => /\ Len(batches) = Len(LtsPositions)
       /\ \A k \in 1..Len(batches) :
            /\ batches[k].packets = PacketsOf(Segment(k))
            /\ batches[k].malformed_packets = MalformedOf(Segment(k))
            /\ batches[k].timestamp.data_relation
                  = Some(RelationOf(outputs[LtsPositions[k]].packet))
       /\ AfterPull =>
            (result.kind = "Batch"
             <=> (pull # <<>> /\ IsPacket(pull[Len(pull)].yielded, LocalTimestamps)))
       /\ (AfterPull /\ result.kind = "Batch")
          => (ts_ctx.packets = <<>> /\ ts_ctx.malformed_packets = <<>>)

\* a batch closed by a local timestamp carries a packet and a malformed packet
C16_Witness ==
    /\ ~options.only_gts
    /\ AfterPull
    /\ result.kind = "Batch"
    /\ Len(result.batch.packets) = 1
    /\ Len(result.batch.malformed_packets) = 1

\* the ts of a local timestamp packet as a usize
LtsValue(packet) ==
    IF packet.type = "LocalTimestamp2" THEN u64_from(packet.ts) ELSE packet.ts
\* the sum of the ts of the local timestamps among ys, None when there is none
RECURSIVE LtsSum(_)
LtsSum(ys) ==
    IF ys = <<>> THEN None
    ELSE LET rest == LtsSum(SubSeq(ys, 1, Len(ys) - 1))
             y == ys[Len(ys)]
         IN  IF ~IsPacket(y, LocalTimestamps) THEN rest
             ELSE IF rest = None THEN Some(LtsValue(y.packet))
             ELSE Some(u64_add(rest[1], LtsValue(y.packet)))
\* what next() returned since the base was last installed (since creation
\* when it never was)
SinceEpoch == SubSeq(outputs, epoch.start + 1, Len(outputs))
\* a <= b on u64
Leq(a, b) ==
    \/ a = b
    \/ \E i \in 1..U64_BITS :
          a[i] = 0 /\ b[i] = 1 /\ \A j \in (i + 1)..U64_BITS : a[j] = b[j]
\* a <= b on Option<usize>, None below everything
DeltaLeq(a, b) == a = None \/ (b # None /\ Leq(a[1], b[1]))
\* delta does not decrease from a batch to a later batch of the same epoch
DeltaMonotonic ==
    \A j \in 1..Len(batches) : \A k \in (j + 1)..Len(batches) :
        epoch.of[j] = epoch.of[k]
        => DeltaLeq(batches[j].timestamp.delta, batches[k].timestamp.delta)

\* C17 (as claimed): within an epoch the delta of every emitted batch equals
\* the sum of the ts of all LocalTimestamp1/LocalTimestamp2 packets decoded
\* since the epoch began, so delta is non-decreasing across the batches of one
\* epoch.
C17_DeltaIsSum ==
    /\ (AfterPull /\ result.kind = "Batch")
       => result.batch.timestamp.delta = LtsSum(SinceEpoch)
    /\ DeltaMonotonic

\* C17 (amended): with only_gts = false the delta of every emitted batch
\* equals the sum of the ts of all local timestamps decoded since the epoch
\* began; with only_gts = true the delta of every emitted batch is None,
\* whatever local timestamps were decoded.  In both modes delta is
\* non-decreasing across the batches of one epoch.
C17_DeltaIsSumAmended ==
    /\ (AfterPull /\ result.kind = "Batch")
       => result.batch.timestamp.delta
             = (IF options.only_gts THEN None ELSE LtsSum(SinceEpoch))
    /\ DeltaMonotonic

\* the second batch of an epoch carries the sum of two local timestamps
C17_Witness ==
    /\ ~options.only_gts
    /\ AfterPull
    /\ result.kind = "Batch"
    /\ Len(batches) = 2
    /\ epoch.of[1] = epoch.of[2]
    /\ batches[1].timestamp.delta = Some(u64_from(131))
    /\ batches[2].timestamp.delta = Some(u64_from(133))

\* the iterations of the last call of pull_with_timestamp()
Steps == 1..Len(pull)
\* both global timestamps are pending in the context c
BothPending(c) == c.gts1 # None /\ c.gts2 # None
\* (upper << 26) | lower, bit by bit
Composed(upper, lower) ==
    [i \in 1..U64_BITS |->
        IF lower[i] = 1 \/ (i > 26 /\ upper[i - 26] = 1) THEN 1 ELSE 0]

\* C18: as soon as a pending gts1 and a pending gts2 are both present (in
\* either arrival order), pull_with_timestamp installs
\* base = (gts2 << 26) | gts1, resets delta and data_relation to None and
\* diverged to false and clears both pending values, without returning a
\* batch for it.
C18_BaseInstallation ==
    /\ \A i \in Steps :
         BothPending(pull[i].arm)
         => /\ pull[i].after.ts
                 = [base |-> Some(Composed(pull[i].arm.gts2[1], pull[i].arm.gts1[1])),
                    delta |-> None, data_relation |-> None, diverged |-> FALSE]
            /\ pull[i].after.gts1 = None
            /\ pull[i].after.gts2 = None
            /\ pull[i].after.packets = pull[i].arm.packets
            /\ pull[i].after.malformed_packets = pull[i].arm.malformed_packets
            /\ ~pull[i].returned
    /\ ~BothPending(ts_ctx)
    /\ AfterPull => ts_ctx = (IF pull = <<>> THEN Pre.ts_ctx ELSE pull[Len(pull)].after)

\* a GlobalTimestamp1 arrived while a GlobalTimestamp2 was pending and the
\* timestamp had a delta and was diverged; the base was installed
C18_Witness ==
    /\ AfterPull
    /\ \E i \in Steps :
         /\ IsPacket(pull[i].yielded, {"GlobalTimestamp1"})
         /\ BothPending(pull[i].arm)
         /\ pull[i].before.ts.diverged
         /\ pull[i].after.ts.base # None

\* the packets a context has accumulated and the batches returned so far hold
\* no global timestamp
NoGlobalTimestampIn(packets) ==
    \A i \in 1..Len(packets) : packets[i].type \notin GlobalTimestamps

\* C19: on a GlobalTimestamp1{ts, wrap, clkch} with both flags clear pending
\* gts1 becomes ts and pending gts2 is kept; with wrap set pending gts2 is
\* discarded; with clkch set both pending values are discarded, the ts just
\* received included; a GlobalTimestamp2{ts} only sets pending gts2.  Neither
\* packet is ever placed in a batch's packets and neither closes a batch, in
\* both option modes.
C19_GlobalTimestamps ==
    /\ \A i \in Steps :
         IsPacket(pull[i].yielded, {"GlobalTimestamp1"})
         => LET p == pull[i].yielded.packet
            IN  /\ (~p.wrap /\ ~p.clkch)
                   => (pull[i].arm.gts1 = Some(p.ts)
                       /\ pull[i].arm.gts2 = pull[i].before.gts2)
                /\ (p.wrap /\ ~p.clkch)
                   => (pull[i].arm.gts1 = Some(p.ts) /\ pull[i].arm.gts2 = None)
                /\ p.clkch => (pull[i].arm.gts1 = None /\ pull[i].arm.gts2 = None)
                /\ pull[i].arm.ts = pull[i].before.ts
                /\ pull[i].arm.packets = pull[i].before.packets
                /\ pull[i].arm.malformed_packets = pull[i].before.malformed_packets
                /\ ~pull[i].returned
    /\ \A i \in Steps :
         IsPacket(pull[i].yielded, {"GlobalTimestamp2"})
         => /\ pull[i].arm = [pull[i].before EXCEPT
                                 !.gts2 = Some(pull[i].yielded.packet.ts),
                                 !.packets_consumed = @ + 1]
            /\ ~pull[i].returned
    /\ NoGlobalTimestampIn(ts_ctx.packets)
    /\ \A k \in 1..Len(batches) : NoGlobalTimestampIn(batches[k].packets)

\* a GlobalTimestamp1 with the clock change flag arrived while a
\* GlobalTimestamp2 was pending, with only_gts set
C19_Witness ==
    /\ options.only_gts
    /\ AfterPull
    /\ \E i \in Steps :
         /\ IsPacket(pull[i].yielded, {"GlobalTimestamp1"})
         /\ pull[i].yielded.packet.clkch
         /\ pull[i].before.gts2 # None
         /\ pull[i].arm.gts2 = None

\* the value next() returned at position i is a GlobalTimestamp1 with the
\* clock change flag clear, resp. a GlobalTimestamp2
IsLower(i) == IsPacket(outputs[i], {"GlobalTimestamp1"}) /\ ~outputs[i].packet.clkch
IsUpper(i) == IsPacket(outputs[i], {"GlobalTimestamp2"})
\* a base is the composition of a GlobalTimestamp1 with clkch clear and a
\* GlobalTimestamp2 that next() returned
FromPair(base) ==
    \E i, j \in 1..Len(outputs) :
        /\ IsLower(i)
        /\ IsUpper(j)
        /\ base = Some(Composed(outputs[j].packet.ts, outputs[i].packet.ts))

\* C20: Timestamp.base is Some only if a GlobalTimestamp1 with clkch clear and
\* a GlobalTimestamp2 were pending together at some earlier point; base
\* changes only at such an installation, so that after one installation a
\* further GlobalTimestamp1 alone (or GlobalTimestamp2 alone) never changes
\* base.
C20_BaseOnlyAfterPair ==
    /\ ts_ctx.ts.base # None => (epoch.start > 0 /\ FromPair(ts_ctx.ts.base))
    /\ \A k \in 1..Len(batches) :
         batches[k].timestamp.base # None
         => (epoch.of[k] > 0 /\ FromPair(batches[k].timestamp.base))
    /\ ts_ctx.gts1 # None
       => \E i \in 1..Len(outputs) : IsLower(i) /\ outputs[i].packet.ts = ts_ctx.gts1[1]
    /\ ts_ctx.gts2 # None
       => \E j \in 1..Len(outputs) : IsUpper(j) /\ outputs[j].packet.ts = ts_ctx.gts2[1]
    /\ \A i \in Steps :
         /\ pull[i].arm.ts.base = pull[i].before.ts.base
         /\ pull[i].after.ts.base # pull[i].before.ts.base => BothPending(pull[i].arm)
         /\ ~BothPending(pull[i].arm) => pull[i].after = pull[i].arm
    /\ last.op = "push" => ts_ctx = Pre.ts_ctx

\* after an installation a further global timestamp arrived alone and left
\* the base as it was
C20_Witness ==
    /\ AfterPull
    /\ ts_ctx.ts.base # None
    /\ \E i \in Steps :
         /\ IsPacket(pull[i].yielded, GlobalTimestamps)
         /\ pull[i].before.ts.base # None
         /\ ~BothPending(pull[i].arm)
         /\ pull[i].after.ts.base = pull[i].before.ts.base

\* C21: base changes monotonically across epochs: each newly installed base
\* is greater than or equal to the base it replaces.
C21_BaseMonotonic ==
    \A i \in Steps :
        (BothPending(pull[i].arm) /\ pull[i].before.ts.base # None)
        => Leq(pull[i].before.ts.base[1], pull[i].after.ts.base[1])

IsOverflow(y) == IsPacket(y, {"Overflow"})
\* next() returned an Overflow after position from, up to position to
OverflowIn(from, to) == \E i \in (from + 1)..to : IsOverflow(outputs[i])

\* C22: diverged is sticky within an epoch: once an Overflow has been
\* processed by pull_with_timestamp every batch returned afterwards has
\* timestamp.diverged = TRUE until the next base installation, which is the
\* only event that sets it back to FALSE; it is FALSE in every batch before
\* the first Overflow of an epoch.
C22_DivergedSticky ==
    /\ \A k \in 1..Len(batches) :
         batches[k].timestamp.diverged = OverflowIn(epoch.of[k], epoch.at[k])
    /\ ts_ctx.ts.diverged = OverflowIn(epoch.start, Len(outputs))
    /\ \A i \in Steps :
         /\ IsOverflow(pull[i].yielded) => pull[i].arm.ts.diverged
         /\ (pull[i].before.ts.diverged /\ ~pull[i].after.ts.diverged)
            => (BothPending(pull[i].arm) /\ ~pull[i].returned)

\* a batch returned after an Overflow and a later base installation is not
\* diverged
C22_Witness ==
    \E k \in 1..Len(batches) :
        /\ ~batches[k].timestamp.diverged
        /\ batches[k].timestamp.base # None
        /\ OverflowIn(0, epoch.of[k])

\* y is a packet that is no local and no global timestamp
IsData(y) == y.kind = "Packet" /\ ~IsPacket(y, LocalTimestamps \cup GlobalTimestamps)

\* C23: with only_gts = TRUE nothing is accumulated: every non-timestamp
\* packet that next() yields (Overflow included) is returned immediately by
\* pull_with_timestamp as a batch containing exactly that one packet with the
\* current Timestamp, delta is None in every returned batch, and the internal
\* packet accumulation stays empty across any sequence of calls.
C23_OnlyGtsNoAccumulation ==
    options.only_gts
    => /\ ts_ctx.packets = <<>>
       /\ \A k \in 1..Len(batches) :
            batches[k].timestamp.delta = None /\ Len(batches[k].packets) = 1
       /\ \A i \in Steps :
            IsData(pull[i].yielded)
            => /\ pull[i].returned
               /\ pull[i].after.packets = <<>>
               /\ result.kind = "Batch"
               /\ result.batch.timestamp = pull[i].before.ts
               /\ result.batch.packets = <<pull[i].yielded.packet>>

\* the number of values other than Ok(None) that next() returned up to the
\* return of batch k and after the return of the batch before it
DecodedFor(k) == epoch.at[k] - (IF k = 1 THEN 0 ELSE epoch.at[k - 1])

\* C24: packets_consumed of every batch returned by pull_with_timestamp equals
\* the number of packets (valid, malformed and timestamp packets, including
\* the one that closed the batch) decoded since the previous batch was
\* returned, in default mode and in only_gts mode, and also when a stall
\* (None) occurred in between.
C24_PacketsConsumed ==
    \A k \in 1..Len(batches) : batches[k].packets_consumed = DecodedFor(k)

\* the stubs whose body follows the header in the buffer
BodyStubs ==
    {"Instrumentation", "HardwareSource", "LocalTimestamp", "GlobalTimestamp1",
     "GlobalTimestamp2"}
\* the number of whole bytes that were buffered behind the header
BytesBehindHeader == (Len(Pre.buffer) - 8) \div 8
\* the body of the stub the last call classified was not completely buffered:
\* fewer bytes than the header announces, resp. no byte with bit 7 clear
BodyIncomplete ==
    IF Hv.stub.type \in {"Instrumentation", "HardwareSource"}
    THEN BytesBehindHeader < Hv.stub.expected_size
    ELSE \A k \in 1..BytesBehindHeader : ByteAt(Pre.buffer, k + 1) >= 128

\* C25: when next() classifies a header as an Instrumentation, HardwareSource,
\* LocalTimestamp, GlobalTimestamp1 or GlobalTimestamp2 stub and the stub's
\* body is not completely buffered, it returns Ok(None) having removed exactly
\* the 8 header bits: no body bit is removed and the decoder stays in Normal.
C25_StubStall ==
    (Classified /\ Hv.kind = "Stub" /\ Hv.stub.type \in BodyStubs /\ BodyIncomplete)
    => (result = OkNone /\ Removed(8) /\ sync = None /\ ~panicked)

\* a timestamp stub stalled with a part of its body buffered
C25_Witness ==
    /\ Classified
    /\ Hv.kind = "Stub"
    /\ Hv.stub.type \in {"LocalTimestamp", "GlobalTimestamp1", "GlobalTimestamp2"}
    /\ BodyIncomplete
    /\ BytesBehindHeader >= 2
    /\ Len(Pre.buffer) % 8 = 0
    /\ result = OkNone

\* most bytes asked of pull_bytes
MaxPull == 3

\* the bits of the bytes s in arrival order: byte after byte, bit 0 first
ArrivalBits(s) == [i \in 1..(8 * Len(s)) |-> BitOf(s[((i - 1) \div 8) + 1], (i - 1) % 8)]
\* the bits of a buffer in the order they leave it
InOrder(buf) == [k \in 1..Len(buf) |-> BitAt(buf, k)]
\* t is the end of s
IsSuffix(t, s) == Len(t) <= Len(s) /\ t = SubSeq(s, Len(s) - Len(t) + 1, Len(s))
\* t is the beginning of s
IsPrefix(t, s) == Len(t) <= Len(s) /\ t = SubSeq(s, 1, Len(t))

\* C26: the bit buffer is a FIFO over any interleaving of push and pulls: bits
\* leave in exactly the order they arrived (bytes in push order, bit 0 of each
\* byte first), also when a push happens while a number of bits that is not a
\* multiple of 8 is buffered; pull_byte returns the next 8 bits with the first
\* bit pulled as bit 0, and pull_bytes(n) returns exactly the next n bytes in
\* arrival order, or None without removing anything when fewer than 8n bits
\* are buffered.
C26_Fifo ==
    /\ IsSuffix(InOrder(buffer), ArrivalBits(stream))
    /\ last.op = "push" => IsPrefix(InOrder(Pre.buffer), InOrder(buffer))
                            /\ Len(buffer) > Len(Pre.buffer)
    /\ AfterNext => IsSuffix(InOrder(buffer), InOrder(Pre.buffer))
    /\ Len(buffer) >= 8
       => pull_byte(buffer) = [byte |-> ByteAt(buffer, 1),
                               buffer |-> SubSeq(buffer, 1, Len(buffer) - 8)]
    /\ \A n \in 0..MaxPull :
         pull_bytes(buffer, n)
         = IF Len(buffer) < 8 * n THEN [payload |-> None, buffer |-> buffer]
           ELSE [payload |-> Some([k \in 1..n |-> ByteAt(buffer, k)]),
                 buffer |-> SubSeq(buffer, 1, Len(buffer) - 8 * n)]

\* a push arrived while 1 to 7 bits were buffered, and next() then pulled a
\* header byte that straddles the pushed bytes
C26_Witness ==
    /\ Classified
    /\ Len(Pre.buffer) % 8 # 0
    /\ Len(stream) >= 6
    /\ 8 * Len(stream) - Len(Pre.buffer) > 8 * (Len(stream) - 2)
    /\ 8 * Len(stream) - Len(Pre.buffer) < 8 * (Len(stream) - 1)

\* the payload p with bits 5 and 6 of its last byte set to c and w
WithFlags(p, c, w) ==
    [p EXCEPT ![Len(p)] = (@ % 32) + 32 * c + 64 * w + 128 * (@ \div 128)]

\* C27: for every GlobalTimestamp1 emitted, clkch equals bit 5 and wrap equals
\* bit 6 of the payload's last byte, and those flag bits do not contaminate the
\* timestamp: two payloads that differ only in bits 5 and 6 of the last byte
\* decode to the same ts.
C27_GTS1Flags ==
    Returned("GlobalTimestamp1")
    => LET p == TimestampPayload
       IN  /\ result.packet.clkch = (BitOf(p[Len(p)], 5) = 1)
           /\ result.packet.wrap = (BitOf(p[Len(p)], 6) = 1)
           /\ \A c, w \in {0, 1} :
                stub_packet(Hv.stub, WithFlags(p, c, w)).packet.ts = result.packet.ts

\* a GlobalTimestamp1 with a payload of two bytes or more was emitted with
\* wrap set and clkch clear
C27_Witness ==
    /\ Returned("GlobalTimestamp1")
    /\ Len(TimestampPayload) >= 2
    /\ result.packet.wrap
    /\ ~result.packet.clkch

\* what next() returned after the return of the batch before batch k and up
\* to the return of batch k
YieldedFor(k) == SubSeq(outputs, (IF k = 1 THEN 0 ELSE epoch.at[k - 1]) + 1, epoch.at[k])

\* C28: no malformed packet is lost by the correlator: every MalformedPacket
\* that next() returns inside pull_with_timestamp appears in the
\* malformed_packets of the next batch that pull_with_timestamp returns, in
\* both default and only_gts mode.
C28_MalformedKept ==
    \A k \in 1..Len(batches) :
        batches[k].malformed_packets = MalformedOf(YieldedFor(k))

\* the context the last iteration of the last pull_with_timestamp started with
Gathered == pull[Len(pull)].before

\* C29: when pull_with_timestamp returns None because next() stalled, nothing
\* gathered so far is dropped: the accumulated packets and malformed packets,
\* the pending gts1/gts2, the current Timestamp and the packets_consumed
\* counter are kept, and after more bytes are pushed the next batch contains
\* those earlier packets ahead of the newly decoded ones.
C29_StallKeeps ==
    /\ (AfterPull /\ result = NoBatch)
       => /\ pull[Len(pull)].yielded = OkNone
          /\ ts_ctx.packets = Gathered.packets
          /\ ts_ctx.malformed_packets = Gathered.malformed_packets
          /\ ts_ctx.gts1 = Gathered.gts1
          /\ ts_ctx.gts2 = Gathered.gts2
          /\ ts_ctx.ts = Gathered.ts
          /\ ts_ctx.packets_consumed >= Gathered.packets_consumed
    /\ (AfterPull /\ result.kind = "Batch")
       => /\ IsPrefix(Pre.ts_ctx.packets, result.batch.packets)
          /\ IsPrefix(Pre.ts_ctx.malformed_packets, result.batch.malformed_packets)

\* the bits removed from the buffer since the decoder was created
ConsumedSoFar == 8 * Len(stream) - Len(buffer)

\* C30: draining terminates: every next() call that returns a packet or an
\* error removes at least 8 bits from the buffer, so that for any finite
\* buffer content and no further push repeated next() calls reach Ok(None)
\* after finitely many calls (every value returned is paid for with 8 bits)
\* and every pull_with_timestamp call returns a batch or None after finitely
\* many loop iterations (one per 8 buffered bits, and one more), without
\* hitting a panic path.
C30_DrainingTerminates ==
    /\ (AfterNext /\ result.kind \in {"Packet", "Err"}) => Consumed >= 8
    /\ 8 * Len(outputs) <= ConsumedSoFar
    /\ ~panicked
    /\ ~panicked
       => \E r \in {pull_with_timestamp(Dec)} :
              /\ r.ret # Panic
              /\ 8 * (Len(r.steps) - 1) <= Len(buffer)

ClaimedWidth(max_bits) == 7 - ((7 - (max_bits % 7)) % 7)
MaskWidth(max_bits) == (max_bits % 7) + 1
\* a call of extract_timestamp has returned
Extracted == extract # None /\ extract.ts # None
\* the low 7 bits of each of the first N - 1 bytes of the payload at bit
\* 7 * i, or-ed with the low w bits of the last byte shifted left by 7 * (N - 1)
Assembled(payload, w) == Groups(payload, 7 * (Len(payload) - 1) + w)

\* C32 (as claimed): for max_bits in {21, 25, 27, 37} and every continuation-
\* terminated payload of N = 1..6 bytes, extract_timestamp returns the low 7
\* bits of each of the first N - 1 bytes placed at bit 7 * i, or-ed with the
\* low w bits of the last byte shifted left by 7 * (N - 1), where
\* w = 7 - ((7 - (max_bits mod 7)) mod 7).
C32_ExtractFormula ==
    Extracted
    => extract.ts[1] = Assembled(extract.payload, ClaimedWidth(extract.max_len))

\* the payload p with the low 7 bits of its last byte inverted
Inverted(p) == [p EXCEPT ![Len(p)] = 127 - @]

\* C32 (amended): the same with w = (max_bits mod 7) + 1: 1 bit for 21,
\* 5 for 25, 7 for 27 and 3 for 37; also for the payload that was passed with
\* the bits of its last byte inverted (set where the encoding leaves them
\* clear).
C32_ExtractFormulaAmended ==
    Extracted
    => /\ extract.ts[1] = Assembled(extract.payload, MaskWidth(extract.max_len))
       /\ extract_timestamp(Inverted(extract.payload), extract.max_len)
          = Assembled(Inverted(extract.payload), MaskWidth(extract.max_len))

\* a payload of two bytes or more whose last byte has a bit set above the mask
C32_Witness ==
    /\ Extracted
    /\ Len(extract.payload) >= 2
    /\ extract.payload[Len(extract.payload)] >= Pow2(MaskWidth(extract.max_len))
    /\ extract.payload[Len(extract.payload)] % Pow2(MaskWidth(extract.max_len)) > 0

\* the first n bytes of a buffer in arrival order
FirstBytes(buf, n) == [k \in 1..n |-> ByteAt(buf, k)]

\* C33: pull_payload returns the shortest prefix of the buffered bytes that
\* ends with the first byte whose bit 7 is clear (all earlier bytes having
\* bit 7 set), in arrival order, and removes exactly those bytes; if no such
\* terminating byte is completely buffered it returns None and removes
\* nothing, also when the number of buffered bits is not a multiple of 8.
C33_PullPayload ==
    /\ \E n \in {ContinuationLen(buffer, 1)} :
         pull_payload(buffer)
         = IF n = 0 THEN [payload |-> None, buffer |-> buffer]
           ELSE [payload |-> Some(FirstBytes(buffer, n)),
                 buffer |-> SubSeq(buffer, 1, Len(buffer) - 8 * n)]
    /\ \A type \in {"LocalTimestamp", "GlobalTimestamp1", "GlobalTimestamp2"} :
         (Classified /\ Hv.kind = "Stub" /\ Hv.stub.type = type)
         => \E n \in {ContinuationLen(Pre.buffer, 2)} :
                /\ Removed(8 + 8 * n)
                /\ n > 0 => result = stub_packet(Hv.stub, BodyBytes(n))
                /\ n = 0 => result = OkNone

\* next() pulled a payload of two bytes or more and left a byte behind it
C33_Witness ==
    /\ TimestampStub("GlobalTimestamp1")
    /\ Len(TimestampPayload) >= 2
    /\ Len(buffer) >= 8
    /\ result.kind = "Packet"

====
